---- MODULE Spec2Model ----
(***************************************************************************)
(* ChefBot (src/app.py): the Telegram webhook's turn handling over the     *)
(* relational store.  A text is a sequence of one-character strings; the   *)
(* store is a record of tables; a SQLAlchemy session (autoflush=False) is  *)
(* a record holding the transaction's view of the tables and the list of   *)
(* pending inserts that queries do not see before a flush.                 *)
(***************************************************************************)
EXTENDS Integers, Sequences, FiniteSets, TLC

VARIABLES
    db,         \* the committed tables (users, bahan, menu, ...)
    gemini,     \* GEMINI_MODEL is not None
    last,       \* what the latest turn received, sent and acknowledged
    lastRated,  \* history: (user, menu) -> score of the latest committed rating, 0 if none
    tx          \* open transactions of concurrently running turns

vars == <<db, gemini, last, lastRated, tx>>

(***************************************************************************)
(* Let(v, F) is F(v) with v evaluated once: LET x == v IN F(x).               *)
(***************************************************************************)
Let(v, F(_)) == CHOOSE y \in {F(x) : x \in {v}} : TRUE

(***************************************************************************)
(* Python str operations on texts.                                         *)
(***************************************************************************)
UPPER == <<"A","B","C","D","E","F","G","H","I","J","K","L","M",
           "N","O","P","Q","R","S","T","U","V","W","X","Y","Z">>
LOWER == <<"a","b","c","d","e","f","g","h","i","j","k","l","m",
           "n","o","p","q","r","s","t","u","v","w","x","y","z">>
DIGITS == <<"0","1","2","3","4","5","6","7","8","9">>

UpperSet == {UPPER[i] : i \in 1..Len(UPPER)}
LowerSet == {LOWER[i] : i \in 1..Len(LOWER)}
DigitSet == {DIGITS[i] : i \in 1..Len(DIGITS)}

IsUpper(c) == c \in UpperSet
IsLowerAlpha(c) == c \in LowerSet
IsDigit(c) == c \in DigitSet
IsSpace(c) == c = " "

LowerChar(c) == IF IsUpper(c) THEN LOWER[CHOOSE i \in 1..Len(UPPER) : UPPER[i] = c] ELSE c

\* str.lower()
Lower(s0) == Let(s0, LAMBDA s : [i \in 1..Len(s) |-> LowerChar(s[i])] \o <<>>)

\* the number of leading whitespace characters
RECURSIVE LeadSpaces(_, _)
LeadSpaces(s, k) == IF k < Len(s) /\ IsSpace(s[k + 1]) THEN LeadSpaces(s, k + 1) ELSE k

\* the number of trailing whitespace characters
RECURSIVE TrailSpaces(_, _)
TrailSpaces(s, k) == IF k < Len(s) /\ IsSpace(s[Len(s) - k]) THEN TrailSpaces(s, k + 1) ELSE k

\* str.lstrip()
LStrip(s0) == Let(s0, LAMBDA s : SubSeq(s, LeadSpaces(s, 0) + 1, Len(s)))

\* str.rstrip()
RStrip(s0) == Let(s0, LAMBDA s : SubSeq(s, 1, Len(s) - TrailSpaces(s, 0)))

\* str.strip()
Strip(s) == RStrip(LStrip(s))

\* the length of the run of non-whitespace characters that starts after position k
RECURSIVE TokLen(_, _)
TokLen(s, k) == IF k < Len(s) /\ ~IsSpace(s[k + 1]) THEN 1 + TokLen(s, k + 1) ELSE 0

\* str.split(maxsplit=k): at most k splits on whitespace runs; the remainder keeps
\* its trailing whitespace and loses its leading whitespace
RECURSIVE SplitMax(_, _)
SplitMax(s, k) ==
    Let(LStrip(s), LAMBDA t :
        IF t = <<>> THEN <<>>
        ELSE IF k = 0 THEN <<t>>
        ELSE Let(TokLen(t, 0), LAMBDA n :
                 <<SubSeq(t, 1, n)>> \o SplitMax(SubSeq(t, n + 1, Len(t)), k - 1)))

\* str.split()
Split(s0) == Let(s0, LAMBDA s : SplitMax(s, Len(s)))

\* " ".join(words)
RECURSIVE JoinFrom(_, _)
JoinFrom(ws, k) == IF k > Len(ws) THEN <<>>
                   ELSE IF k = Len(ws) THEN ws[k]
                   ELSE ws[k] \o <<" ">> \o JoinFrom(ws, k + 1)
Join(ws0) == Let(ws0, LAMBDA ws : JoinFrom(ws, 1))

\* s.startswith(p)
StartsWith(s, p) == Len(p) <= Len(s) /\ SubSeq(s, 1, Len(p)) = p

\* p in s
Contains(s, p) == \E i \in 0..(Len(s) - Len(p)) : SubSeq(s, i + 1, i + Len(p)) = p

DigitVal(c) == (CHOOSE i \in 1..Len(DIGITS) : DIGITS[i] = c) - 1

\* the value of the decimal digits s[1..k]
RECURSIVE DigitsVal(_, _)
DigitsVal(s, k) == IF k = 0 THEN 0 ELSE 10 * DigitsVal(s, k - 1) + DigitVal(s[k])

\* int(tok): an optional sign and decimal digits; anything else is a ValueError
ParseInt(tok) ==
    Let(Strip(tok), LAMBDA t :
    Let(IF t # <<>> /\ Head(t) \in {"-", "+"} THEN Tail(t) ELSE t, LAMBDA body :
        IF body # <<>> /\ \A i \in 1..Len(body) : IsDigit(body[i])
        THEN [ok |-> TRUE,
              v |-> IF Head(t) = "-" THEN 0 - DigitsVal(body, Len(body)) ELSE DigitsVal(body, Len(body))]
        ELSE [ok |-> FALSE, v |-> 0]))

\* the decimal text of a natural number
RECURSIVE IntStr(_)
IntStr(n) == IF n < 10 THEN <<DIGITS[n + 1]>> ELSE IntStr(n \div 10) \o <<DIGITS[(n % 10) + 1]>>

Min(a, b) == IF a < b THEN a ELSE b

\* SQL NULL / Python None in a nullable text column
NULL == <<>>

(***************************************************************************)
(* The store.  users is the set of telegram_user_id; the other tables are   *)
(* sets of rows, riwayat is the list of rows in id_riwayat order.  Columns   *)
(* the code never writes (created_at, note, catatan) and the surrogate key   *)
(* it never reads (id_langkah) are left out.                                 *)
(***************************************************************************)
EmptyDb ==
    [users |-> {}, bahan |-> {}, menu |-> {}, menu_bahan |-> {}, menu_langkah |-> {},
     riwayat |-> <<>>, rating |-> {}, pantang |-> {}]

\* the next AUTO_INCREMENT value of a table
NextId(ids) == IF ids = {} THEN 1 ELSE (CHOOSE i \in ids : \A j \in ids : j <= i) + 1

\* a message handed to the transport: which text, and up to two values it reports
Msg(tag, a, b) == [tag |-> tag, a |-> a, b |-> b]

\* handle_command's "return None"
NoReply == Msg("None", 0, 0)

\* the telegram_user_id of an update that carries none (None)
NONE_ID == 0

(***************************************************************************)
(* The session: SessionLocal() with autoflush=False.  s.db is what the      *)
(* transaction's queries return; s.new are the objects given to             *)
(* session.add() and not flushed yet; dead: a failed flush or a storage     *)
(* error has ended the transaction, commit() will raise.                    *)
(***************************************************************************)
NewSession(d) == [db |-> d, new |-> <<>>, dead |-> FALSE]

\* session.add(obj)
Add(s, table, row) == [s EXCEPT !.new = Append(@, [t |-> table, row |-> row])]

\* the primary key a pending row will be inserted under
PendingKey(p) ==
    CASE p.t = "users"      -> <<"users", p.row.telegram_user_id, 0>>
      [] p.t = "rating"     -> <<"rating", p.row.telegram_user_id, p.row.id_menu>>
      [] p.t = "pantang"    -> <<"pantang", p.row.telegram_user_id, p.row.id_bahan>>
      [] p.t = "menu_bahan" -> <<"menu_bahan", p.row.id_menu, p.row.id_bahan>>
      [] OTHER              -> <<p.t, 0, 0>>

\* the primary keys the tables of the store hold
StoredKeys(d) ==
    {<<"users", u, 0>> : u \in d.users}
    \cup {<<"rating", r.telegram_user_id, r.id_menu>> : r \in d.rating}
    \cup {<<"pantang", r.telegram_user_id, r.id_bahan>> : r \in d.pantang}
    \cup {<<"menu_bahan", r.id_menu, r.id_bahan>> : r \in d.menu_bahan}

\* FlushConflict without the primary keys of user_menu_rating and user_bahan_pantang
\* (lines 135-136, 146-147): an INSERT never meets a stored row of its key
FlushConflict_without_keys(s) ==
    Let([i \in 1..Len(s.new) |-> PendingKey(s.new[i])] \o <<>>, LAMBDA keys :
        \E i \in 1..Len(keys) :
            /\ keys[i][1] = "users"
            /\ \/ keys[i][2] \in s.db.users
               \/ keys[i][2] = NONE_ID
               \/ \E j \in 1..Len(keys) : j # i /\ keys[j] = keys[i])

\* the INSERTs of a flush meet a duplicate key or a NULL key (IntegrityError)
FlushConflict(s) ==
    Let(StoredKeys(s.db), LAMBDA stored :
    Let([i \in 1..Len(s.new) |-> PendingKey(s.new[i])] \o <<>>, LAMBDA keys :
        \E i \in 1..Len(keys) :
            /\ keys[i][1] \in {"users", "rating", "pantang", "menu_bahan"}
            /\ \/ keys[i] \in stored
               \/ keys[i][1] = "users" /\ keys[i][2] = NONE_ID
               \/ \E j \in 1..Len(keys) : j # i /\ keys[j] = keys[i]))

\* one pending row written to its table
InsertRow(d, p) ==
    CASE p.t = "users"        -> [d EXCEPT !.users = @ \cup {p.row.telegram_user_id}]
      [] p.t = "rating"       -> [d EXCEPT !.rating = @ \cup {p.row}]
      [] p.t = "pantang"      -> [d EXCEPT !.pantang = @ \cup {p.row}]
      [] p.t = "menu_bahan"   -> [d EXCEPT !.menu_bahan = @ \cup {p.row}]
      [] p.t = "menu_langkah" -> [d EXCEPT !.menu_langkah = @ \cup {p.row}]
      [] p.t = "riwayat"      -> [d EXCEPT !.riwayat = Append(@, p.row)]

RECURSIVE InsertAll(_, _, _)
InsertAll(d0, new, k) ==
    IF k > Len(new) THEN d0 ELSE Let(InsertRow(d0, new[k]), LAMBDA d : InsertAll(d, new, k + 1))

\* session.flush(): every pending object is inserted, or IntegrityError is raised
Flush(s) ==
    IF s.dead \/ FlushConflict(s) THEN [s |-> [s EXCEPT !.dead = TRUE], raised |-> TRUE]
    ELSE [s |-> [s EXCEPT !.db = InsertAll(s.db, s.new, 1), !.new = <<>>], raised |-> FALSE]

\* what a handler hands back: the session, its reply, and whether it raised
Ret(s, reply) == [s |-> s, reply |-> reply, raised |-> FALSE]
Raise(s) == [s |-> s, reply |-> NoReply, raised |-> TRUE]

\* the elements of a finite set, one after the other
RECURSIVE SeqOf(_)
SeqOf(S) == IF S = {} THEN <<>> ELSE Let(CHOOSE x \in S : TRUE, LAMBDA x : <<x>> \o SeqOf(S \ {x}))

\* ensure_user: session.get() looks in the store, not among the pending objects
ensure_user(s, telegram_user_id) ==
    IF telegram_user_id \in s.db.users THEN s
    ELSE Add(s, "users", [telegram_user_id |-> telegram_user_id])

\* session.get(Menu, id_menu)
GetMenu(s, id_menu) == {m \in s.db.menu : m.id_menu = id_menu}

\* RatingOf without the user in the filter of lines 575-576: the rows of every user
RatingOf_every_user(s, telegram_user_id, id_menu) == {r \in s.db.rating : r.id_menu = id_menu}

\* the UserMenuRating rows of (user, menu) the session's query returns
RatingOf(s, telegram_user_id, id_menu) ==
    {r \in s.db.rating : r.telegram_user_id = telegram_user_id /\ r.id_menu = id_menu}

\* rating_upsert with line 579 not assigning rating_menu: the old score is kept
rating_upsert_keeps_score(s0, telegram_user_id, id_menu, nilai, review) ==
    Let(ensure_user(s0, telegram_user_id), LAMBDA s :
    Let(RatingOf(s, telegram_user_id, id_menu), LAMBDA existing :
        IF existing # {}
        THEN Ret([s EXCEPT !.db.rating = (@ \ existing) \cup
                     {[r EXCEPT !.review = review] : r \in existing}],
                 Msg("rating_diperbarui", id_menu, nilai))
        ELSE Ret(Add(s, "rating", [telegram_user_id |-> telegram_user_id, id_menu |-> id_menu,
                                   rating_menu |-> nilai, review |-> review]),
                 Msg("rating_disimpan", id_menu, nilai))))

\* lines 574-584: the upsert and its reply
rating_upsert(s0, telegram_user_id, id_menu, nilai, review) ==
    Let(ensure_user(s0, telegram_user_id), LAMBDA s :
    Let(RatingOf(s, telegram_user_id, id_menu), LAMBDA existing :
        IF existing # {}
        THEN Ret([s EXCEPT !.db.rating = (@ \ existing) \cup
                     {[r EXCEPT !.rating_menu = nilai, !.review = review] : r \in existing}],
                 Msg("rating_diperbarui", id_menu, nilai))
        ELSE Ret(Add(s, "rating", [telegram_user_id |-> telegram_user_id, id_menu |-> id_menu,
                                   rating_menu |-> nilai, review |-> review]),
                 Msg("rating_disimpan", id_menu, nilai))))

\* handle_rating_command with the test of line 573 left out
handle_rating_command_any_menu(s, telegram_user_id, text) ==
    Let(SplitMax(Strip(text), 3), LAMBDA parts :
        IF Len(parts) < 3 THEN Ret(s, Msg("rating_format", 0, 0))
        ELSE
        Let(ParseInt(parts[2]), LAMBDA id_menu :
        Let(ParseInt(parts[3]), LAMBDA nilai :
            IF ~id_menu.ok \/ ~nilai.ok THEN Ret(s, Msg("rating_format_salah", 0, 0))
            ELSE IF ~(1 <= nilai.v /\ nilai.v <= 5) THEN Ret(s, Msg("rating_range", 0, 0))
            ELSE rating_upsert(s, telegram_user_id, id_menu.v, nilai.v,
                               IF Len(parts) >= 4 THEN Strip(parts[4]) ELSE NULL))))

\* handle_rating_command with line 570 clamping the score into 1..5 instead of rejecting
handle_rating_command_clamps(s, telegram_user_id, text) ==
    Let(SplitMax(Strip(text), 3), LAMBDA parts :
        IF Len(parts) < 3 THEN Ret(s, Msg("rating_format", 0, 0))
        ELSE
        Let(ParseInt(parts[2]), LAMBDA id_menu :
        Let(ParseInt(parts[3]), LAMBDA nilai :
            IF ~id_menu.ok \/ ~nilai.ok THEN Ret(s, Msg("rating_format_salah", 0, 0))
            ELSE IF GetMenu(s, id_menu.v) = {} THEN Ret(s, Msg("menu_tidak_ditemukan", id_menu.v, 0))
            ELSE rating_upsert(s, telegram_user_id, id_menu.v,
                               IF nilai.v < 1 THEN 1 ELSE IF nilai.v > 5 THEN 5 ELSE nilai.v,
                               IF Len(parts) >= 4 THEN Strip(parts[4]) ELSE NULL))))

\* handle_rating_command
handle_rating_command(s, telegram_user_id, text) ==
    Let(SplitMax(Strip(text), 3), LAMBDA parts :
        IF Len(parts) < 3 THEN Ret(s, Msg("rating_format", 0, 0))
        ELSE
        Let(ParseInt(parts[2]), LAMBDA id_menu :
        Let(ParseInt(parts[3]), LAMBDA nilai :
            IF ~id_menu.ok \/ ~nilai.ok THEN Ret(s, Msg("rating_format_salah", 0, 0))
            ELSE IF ~(1 <= nilai.v /\ nilai.v <= 5) THEN Ret(s, Msg("rating_range", 0, 0))
            ELSE IF GetMenu(s, id_menu.v) = {} THEN Ret(s, Msg("menu_tidak_ditemukan", id_menu.v, 0))
            ELSE rating_upsert(s, telegram_user_id, id_menu.v, nilai.v,
                               IF Len(parts) >= 4 THEN Strip(parts[4]) ELSE NULL))))

\* callback_rate with the test of lines 827-829 left out: any id_menu is rated
callback_rate_any_menu(s0, telegram_user_id, id_menu, nilai) ==
    Let(ensure_user(s0, telegram_user_id), LAMBDA s :
    Let(RatingOf(s, telegram_user_id, id_menu), LAMBDA existing :
        IF existing # {}
        THEN Ret([s EXCEPT !.db.rating = (@ \ existing) \cup
                     {[r EXCEPT !.rating_menu = nilai] : r \in existing}],
                 Msg("cb_rating_diperbarui", id_menu, nilai))
        ELSE Ret(Add(s, "rating", [telegram_user_id |-> telegram_user_id, id_menu |-> id_menu,
                                   rating_menu |-> nilai, review |-> NULL]),
                 Msg("cb_rating_disimpan", id_menu, nilai))))

\* lines 826-840: the body of the "with get_session()" block of the rate: branch
callback_rate(s0, telegram_user_id, id_menu, nilai) ==
    IF GetMenu(s0, id_menu) = {} THEN Ret(s0, Msg("cb_menu_tidak_ditemukan", id_menu, 0))
    ELSE
    Let(ensure_user(s0, telegram_user_id), LAMBDA s :
    Let(RatingOf(s, telegram_user_id, id_menu), LAMBDA existing :
        IF existing # {}
        THEN Ret([s EXCEPT !.db.rating = (@ \ existing) \cup
                     {[r EXCEPT !.rating_menu = nilai] : r \in existing}],
                 Msg("cb_rating_diperbarui", id_menu, nilai))
        ELSE Ret(Add(s, "rating", [telegram_user_id |-> telegram_user_id, id_menu |-> id_menu,
                                   rating_menu |-> nilai, review |-> NULL]),
                 Msg("cb_rating_disimpan", id_menu, nilai))))

(***************************************************************************)
(* /pantang                                                                 *)
(***************************************************************************)
S_list      == <<"l","i","s","t">>
S_tambah    == <<"t","a","m","b","a","h">>
S_add       == <<"a","d","d">>
S_plus      == <<"+">>
S_hapus     == <<"h","a","p","u","s">>
S_del       == <<"d","e","l">>
S_delete    == <<"d","e","l","e","t","e">>
S_minus     == <<"-">>
S_pantangan == <<"p","a","n","t","a","n","g","a","n">>
S_alergi    == <<"a","l","e","r","g","i">>
S_unit      == <<"u","n","i","t">>

\* the characters a LIKE pattern does not take literally: any run, any one character,
\* and the escape character
LIKE_SPECIAL == {"%", "_", "\\"}

HasSpecial(p) == \E i \in 1..Len(p) : p[i] \in LIKE_SPECIAL

\* v[i..] LIKE p[j..]
RECURSIVE LikeFrom(_, _, _, _)
LikeFrom(v, p, i, j) ==
    IF j > Len(p) THEN i > Len(v)
    ELSE IF p[j] = "%" THEN LikeFrom(v, p, i, j + 1) \/ (i <= Len(v) /\ LikeFrom(v, p, i + 1, j))
    ELSE IF i > Len(v) THEN FALSE
    ELSE IF p[j] = "_" THEN LikeFrom(v, p, i + 1, j + 1)
    ELSE IF p[j] = "\\" /\ j < Len(p) THEN v[i] = p[j + 1] /\ LikeFrom(v, p, i + 1, j + 2)
    ELSE v[i] = p[j] /\ LikeFrom(v, p, i + 1, j + 1)

\* column.ilike(pattern): lower(column) LIKE lower(pattern); a pattern without special
\* characters matches the values equal to it without case
Ilike(value, pattern) ==
    IF HasSpecial(pattern) THEN LikeFrom(Lower(value), Lower(pattern), 1, 1)
    ELSE Lower(value) = Lower(pattern)

\* Bahan.nama_bahan.ilike("%" + phrase + "%"); when the phrase has no special
\* characters these are the names that contain it without case
BahanLike(s, phrase) ==
    Let(Lower(phrase), LAMBDA p :
        IF HasSpecial(p)
        THEN {b \in s.db.bahan : LikeFrom(Lower(b.nama_bahan), <<"%">> \o p \o <<"%">>, 1, 1)}
        ELSE {b \in s.db.bahan : Let(Lower(b.nama_bahan), LAMBDA n : Contains(n, p))})

\* two names the unique index of nama_bahan / nama_masakan takes for the same: the
\* collation compares without case
SameName(a, b) == Lower(a) = Lower(b)

\* lines 506-508: the jenis read off the argument of "tambah"
PantangJenis(raw) ==
    Let(Split(raw), LAMBDA toks :
    Let(IF toks # <<>> THEN Lower(toks[Len(toks)]) ELSE <<>>, LAMBDA last_tok :
        IF last_tok \notin {S_pantangan, S_alergi} THEN S_pantangan ELSE last_tok))

\* line 509: the ingredient phrase read off the argument of "tambah"
PantangNama(raw, jenis) ==
    IF jenis = S_pantangan THEN raw
    ELSE Let(Split(raw), LAMBDA toks : Strip(Join(SubSeq(toks, 1, Len(toks) - 1))))

\* InsertBahan on a table whose nama_bahan carries no unique index
InsertBahan_without_unique_index(s, nama, satuan) ==
    Let(Flush(s), LAMBDA fl :
    Let([id_bahan |-> NextId({b.id_bahan : b \in s.db.bahan}),
         nama_bahan |-> nama, satuan_bahan |-> satuan], LAMBDA row :
        IF fl.raised
        THEN [s |-> [s EXCEPT !.dead = TRUE], raised |-> TRUE, row |-> row]
        ELSE [s |-> [fl.s EXCEPT !.db.bahan = @ \cup {row}], raised |-> FALSE, row |-> row]))

\* session.add(Bahan(...)); session.flush(): the pending objects are inserted with it;
\* nama_bahan is unique (the collation compares without case)
InsertBahan(s, nama, satuan) ==
    Let(Flush(s), LAMBDA fl :
    Let([id_bahan |-> NextId({b.id_bahan : b \in s.db.bahan}),
         nama_bahan |-> nama, satuan_bahan |-> satuan], LAMBDA row :
        IF fl.raised \/ \E b \in s.db.bahan : SameName(b.nama_bahan, nama)
        THEN [s |-> [s EXCEPT !.dead = TRUE], raised |-> TRUE, row |-> row]
        ELSE [s |-> [fl.s EXCEPT !.db.bahan = @ \cup {row}], raised |-> FALSE, row |-> row]))

\* pantang_apply with line 527 left out: a row that exists keeps the kind it had
pantang_apply_keeps_jenis(s, telegram_user_id, candidates, jenis, created) ==
    Let({b.id_bahan : b \in candidates}, LAMBDA ids :
    Let({p \in s.db.pantang : p.telegram_user_id = telegram_user_id /\ p.id_bahan \in ids}, LAMBDA existing :
    Let(ids \ {p.id_bahan : p \in existing}, LAMBDA fresh :
        Ret([s EXCEPT !.new = @ \o SeqOf({[t |-> "pantang",
                                           row |-> [telegram_user_id |-> telegram_user_id,
                                                    id_bahan |-> i, jenis |-> jenis]] : i \in fresh})],
            Msg(IF created /\ Cardinality(candidates) = 1 THEN "pantang_dibuat" ELSE "pantang_diterapkan",
                Cardinality(fresh), Cardinality(existing))))))

\* lines 521-540: each candidate gets the user's restriction of kind jenis, updated in
\* place or added.  The loop visits distinct ingredients, so its lookups never meet a
\* row it added itself.
pantang_apply(s, telegram_user_id, candidates, jenis, created) ==
    Let({b.id_bahan : b \in candidates}, LAMBDA ids :
    Let({p \in s.db.pantang : p.telegram_user_id = telegram_user_id /\ p.id_bahan \in ids}, LAMBDA existing :
    Let(ids \ {p.id_bahan : p \in existing}, LAMBDA fresh :
        Ret([s EXCEPT !.db.pantang = (@ \ existing) \cup {[p EXCEPT !.jenis = jenis] : p \in existing},
                      !.new = @ \o SeqOf({[t |-> "pantang",
                                           row |-> [telegram_user_id |-> telegram_user_id,
                                                    id_bahan |-> i, jenis |-> jenis]] : i \in fresh})],
            Msg(IF created /\ Cardinality(candidates) = 1 THEN "pantang_dibuat" ELSE "pantang_diterapkan",
                Cardinality(fresh), Cardinality(existing))))))

\* lines 512-519: the ingredients whose name contains the phrase, or a new one
pantang_tambah(s, telegram_user_id, nama_bahan_in, jenis) ==
    Let(BahanLike(s, nama_bahan_in), LAMBDA found :
        IF found # {} THEN pantang_apply(s, telegram_user_id, found, jenis, FALSE)
        ELSE Let(InsertBahan(s, nama_bahan_in, S_unit), LAMBDA ins :
                 IF ins.raised THEN Raise(ins.s)
                 ELSE pantang_apply(ins.s, telegram_user_id, {ins.row}, jenis, TRUE)))

\* pantang_hapus with the telegram_user_id filter of line 548 left out
pantang_hapus_every_user(s, telegram_user_id, nama_bahan_in) ==
    Let(BahanLike(s, nama_bahan_in), LAMBDA bahan_rows :
    Let({p \in s.db.pantang : p.id_bahan \in {b.id_bahan : b \in bahan_rows}}, LAMBDA gone :
        IF bahan_rows = {} THEN Ret(s, Msg("pantang_tidak_cocok", 0, 0))
        ELSE Ret([s EXCEPT !.db.pantang = @ \ gone],
                 Msg("pantang_dihapus", Cardinality(gone), Cardinality(bahan_rows)))))

\* lines 542-552: the user's restrictions on the matched ingredients are deleted
pantang_hapus(s, telegram_user_id, nama_bahan_in) ==
    Let(BahanLike(s, nama_bahan_in), LAMBDA bahan_rows :
    Let({p \in s.db.pantang : p.telegram_user_id = telegram_user_id
                              /\ p.id_bahan \in {b.id_bahan : b \in bahan_rows}}, LAMBDA gone :
        IF bahan_rows = {} THEN Ret(s, Msg("pantang_tidak_cocok", 0, 0))
        ELSE Ret([s EXCEPT !.db.pantang = @ \ gone],
                 Msg("pantang_dihapus", Cardinality(gone), Cardinality(bahan_rows)))))

\* lines 501-510: "tambah" with its argument parsed
pantang_tambah_raw(s, telegram_user_id, raw) ==
    Let(PantangJenis(raw), LAMBDA jenis :
    Let(PantangNama(raw, jenis), LAMBDA nama_bahan_in :
        IF nama_bahan_in = <<>> THEN Ret(s, Msg("pantang_nama_kosong", 0, 0))
        ELSE pantang_tambah(s, telegram_user_id, nama_bahan_in, jenis)))

\* handle_pantang_command
handle_pantang_command(s0, telegram_user_id, text) ==
    Let(SplitMax(Strip(text), 2), LAMBDA parts :
    Let(IF Len(parts) > 1 THEN Lower(parts[2]) ELSE S_list, LAMBDA subcmd :
    Let(ensure_user(s0, telegram_user_id), LAMBDA s :
        IF subcmd = S_list
        THEN Let(Cardinality({p \in s.db.pantang : p.telegram_user_id = telegram_user_id}), LAMBDA n :
                 IF n = 0 THEN Ret(s, Msg("pantang_kosong", 0, 0)) ELSE Ret(s, Msg("pantang_list", n, 0)))
        ELSE IF subcmd \in {S_tambah, S_add, S_plus}
        THEN IF Len(parts) < 3 THEN Ret(s, Msg("pantang_tambah_format", 0, 0))
             ELSE Let(Strip(parts[3]), LAMBDA raw : pantang_tambah_raw(s, telegram_user_id, raw))
        ELSE IF subcmd \in {S_hapus, S_del, S_delete, S_minus}
        THEN IF Len(parts) < 3 THEN Ret(s, Msg("pantang_hapus_format", 0, 0))
             ELSE Let(Strip(parts[3]), LAMBDA raw : pantang_hapus(s, telegram_user_id, raw))
        ELSE Ret(s, Msg("pantang_tidak_dikenal", 0, 0)))))

(***************************************************************************)
(* save_generated_menu_to_db.  A recipe is the parsed JSON: nama_masakan,   *)
(* tingkat_kesulitan, bahan (a list of entries) and langkah (a list of      *)
(* texts).  An entry with dict = FALSE is one that b.get() raises on (not   *)
(* an object, or a nama that is no string).                                  *)
(***************************************************************************)
S_easy   == <<"e","a","s","y">>
S_medium == <<"m","e","d","i","u","m">>
S_hard   == <<"h","a","r","d">>
S_gemini_addmenu == <<"g","e","m","i","n","i",":","/","a","d","d","m","e","n","u">>

\* session.add(Menu(...)); session.flush(); nama_masakan is unique
InsertMenu(s, nama, tingkat, source_url) ==
    Let(Flush(s), LAMBDA fl :
    Let([id_menu |-> NextId({m.id_menu : m \in s.db.menu}), nama_masakan |-> nama,
         tingkat_kesulitan |-> tingkat, source_url |-> source_url], LAMBDA row :
        IF fl.raised \/ \E m \in s.db.menu : SameName(m.nama_masakan, nama)
        THEN [s |-> [s EXCEPT !.dead = TRUE], raised |-> TRUE, row |-> row]
        ELSE [s |-> [fl.s EXCEPT !.db.menu = @ \cup {row}], raised |-> FALSE, row |-> row]))

\* lines 466-471: find or create the Bahan called nama, and link it to the menu;
\* one_or_none() raises when the pattern matches several rows
save_one_bahan(s, id_menu, nama, satuan, jumlah) ==
    Let({x \in s.db.bahan : Ilike(x.nama_bahan, nama)}, LAMBDA found :
        IF Cardinality(found) > 1 THEN [s |-> s, raised |-> TRUE]
        ELSE IF found # {}
        THEN [s |-> Add(s, "menu_bahan", [id_menu |-> id_menu,
                                          id_bahan |-> (CHOOSE x \in found : TRUE).id_bahan,
                                          banyak_bahan |-> jumlah]),
              raised |-> FALSE]
        ELSE Let(InsertBahan(s, nama, satuan), LAMBDA ins :
                 IF ins.raised THEN [s |-> ins.s, raised |-> TRUE]
                 ELSE [s |-> Add(ins.s, "menu_bahan", [id_menu |-> id_menu, id_bahan |-> ins.row.id_bahan,
                                                      banyak_bahan |-> jumlah]),
                       raised |-> FALSE]))

\* lines 461-471, the loop over bahan_list from entry k on; fault: the first Bahan
\* lookup raises a storage error that ends the transaction
RECURSIVE save_bahan(_, _, _, _, _)
save_bahan(s, id_menu, bahan_list, k, fault) ==
    IF k > Len(bahan_list) THEN [s |-> s, raised |-> FALSE]
    ELSE IF ~bahan_list[k].dict THEN [s |-> s, raised |-> TRUE]
    ELSE
    Let(Strip(bahan_list[k].nama), LAMBDA nama :
    Let(Strip(bahan_list[k].satuan), LAMBDA satuan :
        IF nama = <<>> THEN save_bahan(s, id_menu, bahan_list, k + 1, fault)
        ELSE IF fault THEN [s |-> [s EXCEPT !.dead = TRUE], raised |-> TRUE]
        ELSE Let(save_one_bahan(s, id_menu, nama, IF satuan = <<>> THEN S_unit ELSE satuan,
                                bahan_list[k].jumlah), LAMBDA one :
                 IF one.raised THEN one
                 ELSE save_bahan(one.s, id_menu, bahan_list, k + 1, FALSE))))

\* save_langkah with line 472 numbering the steps from the end of langkah_list
save_langkah_from_end(s, id_menu, langkah_list) ==
    Let([i \in 1..Len(langkah_list) |->
            [t |-> "menu_langkah",
             row |-> [id_menu |-> id_menu, langkah_no |-> Len(langkah_list) + 1 - i,
                      deskripsi |-> Strip(langkah_list[i])]]] \o <<>>,
        LAMBDA rows : [s EXCEPT !.new = @ \o SelectSeq(rows, LAMBDA r : r.row.deskripsi # <<>>)])

\* lines 472-475: the non-blank steps, numbered by their position in langkah_list
save_langkah(s, id_menu, langkah_list) ==
    Let([i \in 1..Len(langkah_list) |->
            [t |-> "menu_langkah",
             row |-> [id_menu |-> id_menu, langkah_no |-> i, deskripsi |-> Strip(langkah_list[i])]]] \o <<>>,
        LAMBDA rows : [s EXCEPT !.new = @ \o SelectSeq(rows, LAMBDA r : r.row.deskripsi # <<>>)])

\* save_components without lines 457-459: the old links and steps are not deleted
save_components_keeps_old(s, recipe, id_menu, existing, fault) ==
    Let(save_bahan(s, id_menu, recipe.bahan, 1, fault), LAMBDA sb :
        IF sb.raised THEN [s |-> sb.s, reply |-> Msg("menu_kesalahan", 0, 0), menu_obj |-> 0]
        ELSE [s |-> save_langkah(sb.s, id_menu, recipe.langkah),
              reply |-> Msg(IF existing THEN "menu_diperbarui" ELSE "menu_baru", id_menu, 0),
              menu_obj |-> id_menu])

\* save_components with the deletes of lines 458-459 taking the recipe's history rows too
save_components_drops_history(s, recipe, id_menu, existing, fault) ==
    Let(IF existing
        THEN [s EXCEPT !.db.menu_bahan = {r \in @ : r.id_menu # id_menu},
                       !.db.menu_langkah = {r \in @ : r.id_menu # id_menu},
                       !.db.riwayat = SelectSeq(@, LAMBDA r : r.id_menu # id_menu)]
        ELSE s, LAMBDA s1 :
    Let(save_bahan(s1, id_menu, recipe.bahan, 1, fault), LAMBDA sb :
        IF sb.raised THEN [s |-> sb.s, reply |-> Msg("menu_kesalahan", 0, 0), menu_obj |-> 0]
        ELSE [s |-> save_langkah(sb.s, id_menu, recipe.langkah),
              reply |-> Msg(IF existing THEN "menu_diperbarui" ELSE "menu_baru", id_menu, 0),
              menu_obj |-> id_menu]))

\* lines 457-476: the components of menu id_menu are written; existing: it was there before
save_components(s, recipe, id_menu, existing, fault) ==
    Let(IF existing
        THEN [s EXCEPT !.db.menu_bahan = {r \in @ : r.id_menu # id_menu},
                       !.db.menu_langkah = {r \in @ : r.id_menu # id_menu}]
        ELSE s, LAMBDA s1 :
    Let(save_bahan(s1, id_menu, recipe.bahan, 1, fault), LAMBDA sb :
        IF sb.raised THEN [s |-> sb.s, reply |-> Msg("menu_kesalahan", 0, 0), menu_obj |-> 0]
        ELSE [s |-> save_langkah(sb.s, id_menu, recipe.langkah),
              reply |-> Msg(IF existing THEN "menu_diperbarui" ELSE "menu_baru", id_menu, 0),
              menu_obj |-> id_menu]))

\* lines 440, 444: the difficulty, defaulted and normalised
Tingkat(recipe) ==
    Let(Lower(Strip(IF recipe.tingkat_kesulitan = <<>> THEN S_easy ELSE recipe.tingkat_kesulitan)), LAMBDA t :
        IF t \notin {S_easy, S_medium, S_hard} THEN S_easy ELSE t)

\* save_generated_menu_to_db; menu_obj is the returned Menu's id, 0 for None;
\* one_or_none() of line 446 raises when the pattern matches several rows
save_generated_menu_to_db(s, recipe, source_url, fault) ==
    Let(Strip(recipe.nama_masakan), LAMBDA nama_masakan :
    Let(Tingkat(recipe), LAMBDA tingkat :
    Let({m \in s.db.menu : Ilike(m.nama_masakan, nama_masakan)}, LAMBDA existing :
        IF nama_masakan = <<>> THEN [s |-> s, reply |-> Msg("menu_nama_kosong", 0, 0), menu_obj |-> 0]
        ELSE IF Cardinality(existing) > 1 THEN [s |-> s, reply |-> Msg("menu_kesalahan", 0, 0), menu_obj |-> 0]
        ELSE IF existing # {}
        THEN save_components(
                 [s EXCEPT !.db.menu = (@ \ existing) \cup
                      {[m EXCEPT !.tingkat_kesulitan = tingkat,
                                 !.source_url = IF source_url # NULL THEN source_url ELSE @] : m \in existing}],
                 recipe, (CHOOSE m \in existing : TRUE).id_menu, TRUE, fault)
        ELSE Let(InsertMenu(s, nama_masakan, tingkat, source_url), LAMBDA ins :
                 IF ins.raised THEN [s |-> ins.s, reply |-> Msg("menu_kesalahan", 0, 0), menu_obj |-> 0]
                 ELSE save_components(ins.s, recipe, ins.row.id_menu, FALSE, fault)))))

(***************************************************************************)
(* find_relevant_menus                                                      *)
(***************************************************************************)
MENU_SEARCH_STOPWORDS ==
    {<<"r","e","s","e","p">>,
     <<"t","o","l","o","n","g">>,
     <<"b","u","a","t","k","a","n">>,
     <<"b","i","k","i","n","k","a","n">>,
     <<"b","i","k","i","n">>,
     <<"m","i","n","t","a">>,
     <<"d","o","n","g">>,
     <<"y","a">>,
     <<"y","g">>,
     <<"y","a","n","g">>,
     <<"u","n","t","u","k">>,
     <<"b","u","a","t">>,
     <<"c","a","r","a">>,
     <<"m","a","s","a","k">>,
     <<"m","a","s","a","k","a","n">>,
     <<"m","e","n","u">>,
     <<"r","e","k","o","m","e","n","d","a","s","i">>,
     <<"k","h","a","s">>,
     <<"v","e","r","s","i">>,
     <<"a","k","u">>,
     <<"s","a","y","a">>,
     <<"s","e","d","i","k","i","t">>,
     <<"b","a","n","g","e","t">>,
     <<"p","l","e","a","s","e">>}

\* the characters of the model's texts in code point order
CODE_POINTS == <<" ", "%", "+", "-", ".", "/">> \o DIGITS \o <<":">> \o UPPER \o <<"\\", "_">> \o LOWER

CharOrd(c) == CHOOSE i \in 1..Len(CODE_POINTS) : CODE_POINTS[i] = c

\* a < b for Python strings
RECURSIVE StrLess(_, _)
StrLess(a, b) ==
    IF b = <<>> THEN FALSE
    ELSE IF a = <<>> THEN TRUE
    ELSE IF Head(a) # Head(b) THEN CharOrd(Head(a)) < CharOrd(Head(b))
    ELSE StrLess(Tail(a), Tail(b))

\* _normalize_name
_normalize_name(s) ==
    Let(Lower(s), LAMBDA low :
    Let([i \in 1..Len(low) |-> IF IsLowerAlpha(low[i]) \/ IsDigit(low[i]) THEN low[i] ELSE " "] \o <<>>,
        LAMBDA folded :
    Let(Split(folded), LAMBDA ws :
        Strip(Join(SelectSeq(ws, LAMBDA w : w \notin MENU_SEARCH_STOPWORDS))))))

\* set(norm.split())
TokenSet(norm) == Let(Split(norm), LAMBDA ws : {ws[i] : i \in 1..Len(ws)})

\* score without the 1000 of line 293 for an equal name
score_without_exact_bonus(nama_masakan, q_norm) ==
    Let(_normalize_name(nama_masakan), LAMBDA name_norm :
        IF name_norm = <<>> THEN 0
        ELSE 20 * Cardinality(TokenSet(q_norm) \cap TokenSet(name_norm))
             + (IF Contains(name_norm, q_norm) \/ Contains(q_norm, name_norm) THEN 50 ELSE 0))

\* the inner function score of find_relevant_menus, for the query's normalized text
score(nama_masakan, q_norm) ==
    Let(_normalize_name(nama_masakan), LAMBDA name_norm :
        IF name_norm = <<>> THEN 0
        ELSE (IF name_norm = q_norm THEN 1000 ELSE 0)
             + 20 * Cardinality(TokenSet(q_norm) \cap TokenSet(name_norm))
             + (IF Contains(name_norm, q_norm) \/ Contains(q_norm, name_norm) THEN 50 ELSE 0))

\* the sort key of line 299 without the name: (-score) alone
RankedBefore_score_only(x1, x2) == x1.score > x2.score

\* the sort key order of line 299 on pairs (menu, score): (-score, lowercased name)
RankedBefore(x1, x2) ==
    \/ x1.score > x2.score
    \/ x1.score = x2.score /\ StrLess(x1.key, x2.key)

\* list.sort(key=...) is stable: x goes behind the entries it is not ranked before
RECURSIVE InsertRanked(_, _)
InsertRanked(sorted, x) ==
    IF sorted = <<>> THEN <<x>>
    ELSE IF RankedBefore(x, Head(sorted)) THEN <<x>> \o sorted
    ELSE <<Head(sorted)>> \o InsertRanked(Tail(sorted), x)

\* scored.sort(...) of line 299, from entry k on
RECURSIVE SortRanked(_, _, _)
SortRanked(scored, k, sorted) ==
    IF k > Len(scored) THEN sorted ELSE SortRanked(scored, k + 1, InsertRanked(sorted, scored[k]))

\* lines 282-300 for the candidates as session.query(Menu).all() returned them
rank_menus(candidates, query_text, limit) ==
    Let(Strip(query_text), LAMBDA q_raw :
    Let(_normalize_name(q_raw), LAMBDA q_norm :
        IF q_raw = <<>> \/ q_norm = <<>> \/ candidates = <<>> THEN <<>>
        ELSE
        Let([i \in 1..Len(candidates) |->
                [m |-> candidates[i], score |-> score(candidates[i].nama_masakan, q_norm),
                 key |-> Lower(candidates[i].nama_masakan)]] \o <<>>, LAMBDA scored :
        Let(SortRanked(SelectSeq(scored, LAMBDA x : x.score > 0), 1, <<>>), LAMBDA sorted :
            [i \in 1..Min(Len(sorted), limit) |-> sorted[i].m] \o <<>>))))

\* the rows of a table in primary key order
RECURSIVE MenuRows(_)
MenuRows(menus) ==
    IF menus = {} THEN <<>>
    ELSE Let(CHOOSE m \in menus : \A o \in menus : m.id_menu <= o.id_menu, LAMBDA first :
             <<first>> \o MenuRows(menus \ {first}))

\* find_relevant_menus; the storage returns the catalog in primary key order
find_relevant_menus(s, query_text, limit) == rank_menus(MenuRows(s.db.menu), query_text, limit)

(***************************************************************************)
(* The regular expressions of the intent patterns, on the lowercased text.  *)
(***************************************************************************)
\* \w
IsWordChar(c) == IsLowerAlpha(c) \/ IsUpper(c) \/ IsDigit(c) \/ c = "_"

WordCharAt(t, k) == k >= 1 /\ k <= Len(t) /\ IsWordChar(t[k])

\* \b between positions k and k+1 of t
Boundary(t, k) == WordCharAt(t, k) # WordCharAt(t, k + 1)

\* w occurs in t from position i on
MatchAt(t, i, w) ==
    /\ i >= 1
    /\ i + Len(w) - 1 <= Len(t)
    /\ \A k \in 1..Len(w) : t[i + k - 1] = w[k]

\* \bw\b matches at position i
WordAt(t, i, w) == MatchAt(t, i, w) /\ Boundary(t, i - 1) /\ Boundary(t, i + Len(w) - 1)

\* re.search(r"\bw\b", t)
HasWord(t, w) == \E i \in 1..Len(t) : WordAt(t, i, w)

\* re.search(r"\b<stem><c>+\b", t)
HasWordPlus(t, stem, c) ==
    \E i \in 1..Len(t) :
        /\ MatchAt(t, i, stem) /\ Boundary(t, i - 1)
        /\ \E n \in 1..Len(t) :
            /\ i + Len(stem) + n - 1 <= Len(t)
            /\ \A k \in (i + Len(stem))..(i + Len(stem) + n - 1) : t[k] = c
            /\ Boundary(t, i + Len(stem) + n - 1)

\* re.search(r"\b<a>\s*<b>\b", t)
HasPair(t, a, b) ==
    \E i \in 1..Len(t) :
        /\ MatchAt(t, i, a) /\ Boundary(t, i - 1)
        /\ \E n \in 0..Len(t) :
            /\ \A k \in (i + Len(a))..(i + Len(a) + n - 1) : k <= Len(t) /\ IsSpace(t[k])
            /\ MatchAt(t, i + Len(a) + n, b)
            /\ Boundary(t, i + Len(a) + n + Len(b) - 1)

\* re.search(r"\b<a>\b.*\b<b>\b", t)
HasWordThenWord(t, a, b) ==
    \E i \in 1..Len(t) :
        /\ WordAt(t, i, a)
        /\ \E j \in (i + Len(a))..Len(t) : WordAt(t, j, b)

P_bingung == <<"b","i","n","g","u","n","g">>
P_masak == <<"m","a","s","a","k">>
P_kasih == <<"k","a","s","i","h">>
P_kasihkan == <<"k","a","s","i","h","k","a","n">>
P_ide == <<"i","d","e">>
P_rekom == <<"r","e","k","o","m">>
P_rekomendasi == <<"r","e","k","o","m","e","n","d","a","s","i">>
P_masak_apa == <<"m","a","s","a","k"," ","a","p","a">>
P_hal == <<"h","a","l">>
P_ha == <<"h","a">>
P_hall == <<"h","a","l","l">>
P_o == <<"o">>
P_i == <<"i">>
P_selamat == <<"s","e","l","a","m","a","t">>
P_pagi == <<"p","a","g","i">>
P_siang == <<"s","i","a","n","g">>
P_sore == <<"s","o","r","e">>
P_malam == <<"m","a","l","a","m">>
P_by == <<"b","y">>
P_e == <<"e">>
P_dada == <<"d","a","d","a">>
P_dadah == <<"d","a","d","a","h">>
P_sampai_jumpa == <<"s","a","m","p","a","i"," ","j","u","m","p","a">>
P_see_you == <<"s","e","e"," ","y","o","u">>
P_terima_kasih == <<"t","e","r","i","m","a"," ","k","a","s","i","h">>
P_makasih == <<"m","a","k","a","s","i","h">>
P_thanks == <<"t","h","a","n","k","s">>
P_thank_you == <<"t","h","a","n","k"," ","y","o","u">>

\* is_recommendation_intent: any of RECOM_INTENT_PATTERNS
is_recommendation_intent(text) ==
    Let(Lower(text), LAMBDA t :
        \/ HasWordThenWord(t, P_bingung, P_masak)
        \/ HasPair(t, P_kasih, P_ide) \/ HasPair(t, P_kasihkan, P_ide)
        \/ HasWord(t, P_rekom) \/ HasWord(t, P_rekomendasi)
        \/ HasWord(t, P_masak_apa))

\* is_smalltalk: the first label of SMALLTALK_PATTERNS with a matching pattern, "" for None
is_smalltalk(text) ==
    Let(Lower(text), LAMBDA t :
        IF \/ HasWordPlus(t, P_hal, "o") \/ HasWordPlus(t, P_ha, "i") \/ HasWordPlus(t, P_hall, "o")
           \/ \E w \in {P_pagi, P_siang, P_sore, P_malam} : HasPair(t, P_selamat, w)
        THEN "halo"
        ELSE IF \/ HasWordPlus(t, P_by, "e") \/ HasWord(t, P_dada) \/ HasWord(t, P_dadah)
                \/ HasWord(t, P_sampai_jumpa) \/ HasWord(t, P_see_you)
        THEN "bye"
        ELSE IF HasWord(t, P_terima_kasih) \/ HasWord(t, P_makasih)
                \/ HasWord(t, P_thanks) \/ HasWord(t, P_thank_you)
        THEN "thanks"
        ELSE "")

(***************************************************************************)
(* handle_command                                                           *)
(***************************************************************************)
C_start == <<"/","s","t","a","r","t">>
C_help == <<"/","h","e","l","p">>
C_id == <<"/","i","d">>
C_history == <<"/","h","i","s","t","o","r","y">>
C_pantang == <<"/","p","a","n","t","a","n","g">>
C_rating == <<"/","r","a","t","i","n","g">>
C_menu == <<"/","m","e","n","u">>
C_addmenu == <<"/","a","d","d","m","e","n","u">>
C_buatmenu == <<"/","b","u","a","t","m","e","n","u">>
C_addmenulink == <<"/","a","d","d","m","e","n","u","l","i","n","k">>
C_addmenufromlink == <<"/","a","d","d","m","e","n","u","f","r","o","m","l","i","n","k">>
S_http == <<"h","t","t","p",":","/","/">>
S_https == <<"h","t","t","p","s",":","/","/">>
S_slash == <<"/">>
S_pantang_list == <<"/","p","a","n","t","a","n","g"," ","l","i","s","t">>

\* build_history_text: the user's latest rows, at most 5
build_history_text(s, telegram_user_id) ==
    Let(Cardinality({i \in 1..Len(s.db.riwayat) : s.db.riwayat[i].telegram_user_id = telegram_user_id}),
        LAMBDA n : IF n = 0 THEN Msg("riwayat_kosong", 0, 0) ELSE Msg("riwayat", Min(n, 5), 0))

\* build_menu_list_text: at most 50 menus
build_menu_list_text(s) ==
    IF s.db.menu = {} THEN Msg("menu_kosong", 0, 0) ELSE Msg("daftar_menu", Min(Cardinality(s.db.menu), 50), 0)

\* lines 704-708 and 733-736: the recipe is saved and the outcome reported
save_and_report(s, recipe, source_url, fault, from_link) ==
    Let(save_generated_menu_to_db(s, recipe, source_url, fault = "save"), LAMBDA saved :
        IF saved.menu_obj = 0 THEN Ret(saved.s, Msg("menu_belum_disimpan", 0, 0))
        ELSE Ret(saved.s, Msg(saved.reply.tag, saved.menu_obj, IF from_link THEN 1 ELSE 0)))

\* addmenu_branch with the test of line 689 left out: the AI is asked without a key
addmenu_branch_without_key(s, gem, text, ai, fault) ==
    Let(SplitMax(text, 1), LAMBDA parts :
        IF Len(parts) < 2 THEN Ret(s, Msg("addmenu_format", 0, 0))
        ELSE IF ~ai.json THEN Ret(s, Msg("addmenu_kesalahan", 0, 0))
        ELSE save_and_report(s, ai.recipe, S_gemini_addmenu, fault, FALSE))

\* lines 687-711, the /addmenu branch.  ai is what the collaborators hand back: whether
\* the page was fetched (http), whether the answer parses as JSON (json), and the recipe
addmenu_branch(s, gem, text, ai, fault) ==
    Let(SplitMax(text, 1), LAMBDA parts :
        IF ~gem THEN Ret(s, Msg("ai_belum_aktif_addmenu", 0, 0))
        ELSE IF Len(parts) < 2 THEN Ret(s, Msg("addmenu_format", 0, 0))
        ELSE IF ~ai.json THEN Ret(s, Msg("addmenu_kesalahan", 0, 0))
        ELSE save_and_report(s, ai.recipe, S_gemini_addmenu, fault, FALSE))

\* lines 714-739, the /addmenulink branch
addmenulink_branch(s, gem, text, ai, fault) ==
    Let(SplitMax(text, 1), LAMBDA parts :
        IF ~gem THEN Ret(s, Msg("ai_belum_aktif_addmenulink", 0, 0))
        ELSE IF Len(parts) < 2 THEN Ret(s, Msg("addmenulink_format", 0, 0))
        ELSE Let(Strip(parts[2]), LAMBDA url :
                 IF ~(StartsWith(url, S_http) \/ StartsWith(url, S_https))
                 THEN Ret(s, Msg("url_tidak_valid", 0, 0))
                 ELSE IF ~ai.http \/ ~ai.json THEN Ret(s, Msg("addmenulink_gagal", 0, 0))
                 ELSE save_and_report(s, ai.recipe, url, fault, TRUE)))

\* the test of line 687
IsAddMenu(lowered) == StartsWith(lowered, C_addmenu) \/ StartsWith(lowered, C_buatmenu)

\* the test of line 714
IsAddMenuLink(lowered) == StartsWith(lowered, C_addmenulink) \/ StartsWith(lowered, C_addmenufromlink)

\* handle_command: the first prefix in the code's order that the lowered text starts with
handle_command(s, gem, telegram_user_id, text, ai, fault) ==
    Let(Lower(Strip(text)), LAMBDA lowered :
        IF StartsWith(lowered, C_start) THEN Ret(s, Msg("start", 0, 0))
        ELSE IF StartsWith(lowered, C_help) THEN Ret(s, Msg("help", 0, 0))
        ELSE IF StartsWith(lowered, C_id) THEN Ret(s, Msg("id", telegram_user_id, 0))
        ELSE IF StartsWith(lowered, C_history) THEN Ret(s, build_history_text(s, telegram_user_id))
        ELSE IF StartsWith(lowered, C_pantang) THEN handle_pantang_command(s, telegram_user_id, text)
        ELSE IF StartsWith(lowered, C_rating) THEN handle_rating_command(s, telegram_user_id, text)
        ELSE IF StartsWith(lowered, C_menu) THEN Ret(s, build_menu_list_text(s))
        ELSE IF IsAddMenu(lowered) THEN addmenu_branch(s, gem, text, ai, fault)
        ELSE IF IsAddMenuLink(lowered) THEN addmenulink_branch(s, gem, text, ai, fault)
        ELSE Ret(s, NoReply))

(***************************************************************************)
(* generate_answer_for_user and telegram_webhook                            *)
(***************************************************************************)
KETERANGAN_LEN == 180

\* lines 634-636: the steps of a menu as they are read, sorted by langkah_no
RECURSIVE SortLangkah(_)
SortLangkah(rows) ==
    IF rows = {} THEN <<>>
    ELSE Let(CHOOSE r \in rows : \A o \in rows : r.langkah_no <= o.langkah_no, LAMBDA first :
             <<first>> \o SortLangkah(rows \ {first}))

langkah_sorted(d, id_menu) == SortLangkah({l \in d.menu_langkah : l.id_menu = id_menu})

\* generate_answer_for_user with line 653 taking the last of the matched menus
generate_answer_for_user_last_menu(s, telegram_user_id, text) ==
    Let(find_relevant_menus(s, text, 3), LAMBDA menus :
        IF menus = <<>> THEN [s |-> s, primary_menu |-> 0]
        ELSE [s |-> Add(s, "riwayat", [telegram_user_id |-> telegram_user_id,
                                       id_menu |-> menus[Len(menus)].id_menu,
                                       keterangan |-> SubSeq(text, 1, Min(Len(text), KETERANGAN_LEN))]),
              primary_menu |-> menus[Len(menus)].id_menu])

\* generate_answer_for_user: the answer, and a history row for the primary menu
generate_answer_for_user(s, telegram_user_id, text) ==
    Let(find_relevant_menus(s, text, 3), LAMBDA menus :
        IF menus = <<>> THEN [s |-> s, primary_menu |-> 0]
        ELSE [s |-> Add(s, "riwayat", [telegram_user_id |-> telegram_user_id,
                                       id_menu |-> menus[1].id_menu,
                                       keterangan |-> SubSeq(text, 1, Min(Len(text), KETERANGAN_LEN))]),
              primary_menu |-> menus[1].id_menu])

\* what the block did: the session it leaves, the messages sent, the pathway taken
Body(s, out, path, raised) == [s |-> s, out |-> out, path |-> path, raised |-> raised]

\* lines 917-942: the free-text pathway
freetext_path(s0, telegram_user_id, text) ==
    Let(generate_answer_for_user(s0, telegram_user_id, text), LAMBDA gen :
        Body(gen.s,
             <<Msg("answer", gen.primary_menu, 0),
               IF gen.primary_menu # 0 THEN Msg("beri_rating", gen.primary_menu, 0)
               ELSE Msg("belum_menemukan", 0, 0)>>,
             "freetext", FALSE))

\* command_path with a text that matches no command handed on to the free-text pathway
command_path_falls_through(s0, gem, telegram_user_id, text, ai, fault) ==
    Let(handle_command(s0, gem, telegram_user_id, text, ai, fault), LAMBDA result :
        IF result.raised THEN Body(result.s, <<>>, "command", TRUE)
        ELSE IF result.reply = NoReply THEN freetext_path(result.s, telegram_user_id, text)
        ELSE Body(result.s, <<result.reply>>, "command", FALSE))

\* lines 891-899: the command pathway
command_path(s0, gem, telegram_user_id, text, ai, fault) ==
    Let(handle_command(s0, gem, telegram_user_id, text, ai, fault), LAMBDA result :
        IF result.raised THEN Body(result.s, <<>>, "command", TRUE)
        ELSE IF result.reply = NoReply
        THEN Body(result.s, <<Msg("perintah_tidak_dikenal", 0, 0)>>, "command", FALSE)
        ELSE Body(result.s, <<result.reply>>, "command", FALSE))

\* webhook_body with the small-talk test of line 909 ahead of the recommendation test
webhook_body_smalltalk_first(d, gem, telegram_user_id, text, ai, fault) ==
    Let(ensure_user(NewSession(d), telegram_user_id), LAMBDA s0 :
        IF fault = "first" THEN Body(s0, <<>>, "none", TRUE)
        ELSE IF StartsWith(text, S_slash) THEN command_path(s0, gem, telegram_user_id, text, ai, fault)
        ELSE Let(is_smalltalk(text), LAMBDA st_label :
                 IF st_label # "" THEN Body(s0, <<Msg(st_label, 0, 0)>>, "smalltalk", FALSE)
                 ELSE IF is_recommendation_intent(text)
                 THEN Body(s0, <<Msg("rekomendasi", Min(Cardinality(d.menu), 5), 0)>>, "recommendation", FALSE)
                 ELSE freetext_path(s0, telegram_user_id, text)))

\* lines 888-942, the body of the "with get_session()" block of telegram_webhook for a
\* non-empty text.  fault "first": the session's first statement meets a storage error
webhook_body(d, gem, telegram_user_id, text, ai, fault) ==
    Let(ensure_user(NewSession(d), telegram_user_id), LAMBDA s0 :
        IF fault = "first" THEN Body(s0, <<>>, "none", TRUE)
        ELSE IF StartsWith(text, S_slash) THEN command_path(s0, gem, telegram_user_id, text, ai, fault)
        ELSE IF is_recommendation_intent(text)
        THEN Body(s0, <<Msg("rekomendasi", Min(Cardinality(d.menu), 5), 0)>>, "recommendation", FALSE)
        ELSE Let(is_smalltalk(text), LAMBDA st_label :
                 IF st_label # "" THEN Body(s0, <<Msg(st_label, 0, 0)>>, "smalltalk", FALSE)
                 ELSE freetext_path(s0, telegram_user_id, text)))

\* get_session's exit: commit, or rollback and re-raise.  The store after it, and
\* whether the block ended with an exception.  fault "commit": the commit fails
get_session_exit(d, body, fault) ==
    IF body.raised \/ body.s.dead \/ fault = "commit" THEN [db |-> d, raised |-> TRUE]
    ELSE Let(Flush(body.s), LAMBDA fl :
             IF fl.raised THEN [db |-> d, raised |-> TRUE] ELSE [db |-> fl.s.db, raised |-> FALSE])

APOLOGY == Msg("maaf_kesalahan_server", 0, 0)

\* what telegram_webhook did: the store, the messages sent, the pathway, the commit
Turn(d, out, path, committed) == [db |-> d, out |-> out, path |-> path, committed |-> committed]

\* telegram_webhook for a message update that carries a text
telegram_webhook(d, gem, telegram_user_id, text0, ai, fault) ==
    Let(Strip(text0), LAMBDA text :
        IF telegram_user_id = NONE_ID THEN Turn(d, <<Msg("user_id_tidak_dikenal", 0, 0)>>, "none", FALSE)
        ELSE IF text = <<>> THEN Turn(d, <<Msg("kirim_pesan_teks", 0, 0)>>, "none", FALSE)
        ELSE
        Let(webhook_body(d, gem, telegram_user_id, text, ai, fault), LAMBDA body :
        Let(get_session_exit(d, body, fault), LAMBDA done :
            Turn(done.db, IF done.raised THEN Append(body.out, APOLOGY) ELSE body.out,
                 body.path, ~done.raised))))

(***************************************************************************)
(* handle_callback_query                                                    *)
(***************************************************************************)
D_history == <<"h","i","s","t","o","r","y">>
D_help_from_start == <<"h","e","l","p","_","f","r","o","m","_","s","t","a","r","t">>
D_pantang_manage == <<"p","a","n","t","a","n","g","_","m","a","n","a","g","e">>
D_pantang_view == <<"p","a","n","t","a","n","g","_","v","i","e","w">>
D_menu_list == <<"m","e","n","u","_","l","i","s","t">>
D_menu_add == <<"m","e","n","u","_","a","d","d">>
D_menu_add_link == <<"m","e","n","u","_","a","d","d","_","l","i","n","k">>
D_rekomendasi == <<"r","e","k","o","m","e","n","d","a","s","i">>
D_rate == <<"r","a","t","e",":">>


\* the position of the first sep in s from k on, Len(s) + 1 if there is none
RECURSIVE FindSep(_, _, _)
FindSep(s, sep, k) == IF k > Len(s) \/ s[k] = sep THEN k ELSE FindSep(s, sep, k + 1)

\* str.split(sep) from position k on, for a one-character separator: empty fields are kept
RECURSIVE SplitOnFrom(_, _, _)
SplitOnFrom(s, sep, k) ==
    Let(FindSep(s, sep, k), LAMBDA e :
        IF e > Len(s) THEN <<SubSeq(s, k, Len(s))>>
        ELSE <<SubSeq(s, k, e - 1)>> \o SplitOnFrom(s, sep, e + 1))

SplitOn(s, sep) == SplitOnFrom(s, sep, 1)

\* a "with get_session() as session" block of handle_callback_query around body:
\* a storage error in it, or at its commit, leaves the block as an exception
callback_block(d, body, fault) ==
    get_session_exit(d, [s |-> body.s, raised |-> body.raised \/ fault = "first"], fault)

\* what handle_callback_query did: the store, the messages sent, how often and how
\* answer_callback_query was called, and whether an exception left the handler
CbDone(d, out, callback_id, answers, alert) ==
    [db |-> d, out |-> out, acks |-> IF callback_id THEN answers ELSE 0,
     alert |-> callback_id /\ alert, raised |-> FALSE]
CbRaised(d) == [db |-> d, out |-> <<>>, acks |-> 0, alert |-> FALSE, raised |-> TRUE]

\* a block that only reads, then the message built from what it read
callback_read(d, callback_id, fault, reply) ==
    Let(callback_block(d, Ret(NewSession(d), NoReply), fault), LAMBDA blk :
        IF blk.raised THEN CbRaised(d) ELSE CbDone(d, <<reply>>, callback_id, 1, FALSE))

\* lines 826-843: the block of the rate: branch, the message and the acknowledgement
callback_rate_block(d, telegram_user_id, id_menu, nilai, callback_id, fault) ==
    Let(callback_rate(NewSession(d), telegram_user_id, id_menu, nilai), LAMBDA body :
    Let(callback_block(d, body, fault), LAMBDA blk :
        IF blk.raised THEN CbRaised(d) ELSE CbDone(blk.db, <<body.reply>>, callback_id, 1, FALSE)))

\* callback_rate_branch with the test of line 823 left out
callback_rate_branch_any_score(d, telegram_user_id, data, callback_id, fault) ==
    Let(SplitOn(data, ":"), LAMBDA parts :
        IF Len(parts) # 3 THEN CbDone(d, <<>>, callback_id, 1, FALSE)
        ELSE
        Let(ParseInt(parts[2]), LAMBDA id_menu :
        Let(ParseInt(parts[3]), LAMBDA nilai :
            IF ~id_menu.ok \/ ~nilai.ok THEN CbDone(d, <<>>, callback_id, 1, FALSE)
            ELSE callback_rate_block(d, telegram_user_id, id_menu.v, nilai.v, callback_id, fault))))

\* lines 813-843, the rate:<id_menu>:<nilai> branch
callback_rate_branch(d, telegram_user_id, data, callback_id, fault) ==
    Let(SplitOn(data, ":"), LAMBDA parts :
        IF Len(parts) # 3 THEN CbDone(d, <<>>, callback_id, 1, FALSE)
        ELSE
        Let(ParseInt(parts[2]), LAMBDA id_menu :
        Let(ParseInt(parts[3]), LAMBDA nilai :
            IF ~id_menu.ok \/ ~nilai.ok THEN CbDone(d, <<>>, callback_id, 1, FALSE)
            ELSE IF ~(1 <= nilai.v /\ nilai.v <= 5) THEN CbDone(d, <<>>, callback_id, 1, TRUE)
            ELSE callback_rate_block(d, telegram_user_id, id_menu.v, nilai.v, callback_id, fault))))

\* lines 777-782, the pantang_view branch
callback_pantang_view(d, telegram_user_id, callback_id, fault) ==
    Let(handle_pantang_command(NewSession(d), telegram_user_id, S_pantang_list), LAMBDA view :
    Let(callback_block(d, view, fault), LAMBDA blk :
        IF blk.raised THEN CbRaised(d) ELSE CbDone(blk.db, <<view.reply>>, callback_id, 1, FALSE)))

\* handle_callback_query.  callback_id, chat_id: whether the update carries them;
\* telegram_user_id is NONE_ID when it carries none.  The transport is configured
\* (BOT_TOKEN is set), so each answer_callback_query call is one acknowledgement.
handle_callback_query(d, telegram_user_id, data, callback_id, chat_id, fault) ==
    IF (~chat_id \/ telegram_user_id = NONE_ID) /\ callback_id THEN CbDone(d, <<>>, callback_id, 1, FALSE)
    ELSE IF data = D_history
    THEN callback_read(d, callback_id, fault, build_history_text(NewSession(d), telegram_user_id))
    ELSE IF data = D_help_from_start THEN CbDone(d, <<Msg("help", 0, 0)>>, callback_id, 1, FALSE)
    ELSE IF data = D_pantang_manage THEN CbDone(d, <<Msg("atur_pantangan", 0, 0)>>, callback_id, 1, FALSE)
    ELSE IF data = D_pantang_view THEN callback_pantang_view(d, telegram_user_id, callback_id, fault)
    ELSE IF data = D_menu_list
    THEN callback_read(d, callback_id, fault, build_menu_list_text(NewSession(d)))
    ELSE IF data = D_menu_add THEN CbDone(d, <<Msg("tambah_menu_ai", 0, 0)>>, callback_id, 1, FALSE)
    ELSE IF data = D_menu_add_link THEN CbDone(d, <<Msg("tambah_menu_link", 0, 0)>>, callback_id, 1, FALSE)
    ELSE IF data = D_rekomendasi
    THEN callback_read(d, callback_id, fault, Msg("rekomendasi", Min(Cardinality(d.menu), 5), 0))
    ELSE IF StartsWith(data, D_rate)
    THEN callback_rate_branch(d, telegram_user_id, data, callback_id, fault)
    ELSE CbDone(d, <<>>, callback_id, 1, FALSE)

(***************************************************************************)
(* Turns.  A turn is one webhook request, handled from its arrival to its   *)
(* response.                                                                *)
(***************************************************************************)
MaxUser    == 2
MaxRiwayat == 2
MaxMenu    == 2
MaxBahan   == 2

Users == 1..MaxUser

\* the store stays within the bounds of the model
Bounded(d) ==
    /\ Len(d.riwayat) <= MaxRiwayat
    /\ Cardinality(d.menu) <= MaxMenu
    /\ Cardinality(d.bahan) <= MaxBahan

NoTurn == [kind |-> "none", user |-> 0, text |-> <<>>, path |-> "none", out |-> <<>>,
           acks |-> 0, alert |-> FALSE, committed |-> FALSE, raised |-> FALSE,
           callback_id |-> FALSE, fault |-> "none"]

\* the (user, menu, score) of the rating a committed turn reported, if it reported one
Rated(u, out, committed) ==
    IF committed /\ out # <<>> /\ out[1].tag \in {"rating_disimpan", "rating_diperbarui",
                                                  "cb_rating_disimpan", "cb_rating_diperbarui"}
    THEN {[user |-> u, id_menu |-> out[1].a, nilai |-> out[1].b]}
    ELSE {}

NoteRated(old, now) ==
    {l \in old : \A n \in now : ~(l.user = n.user /\ l.id_menu = n.id_menu)} \cup now

\* a text message of user u arrives and telegram_webhook handles it
TextTurn(u, text, ai, fault) ==
    \E r \in {telegram_webhook(db, gemini, u, text, ai, fault)} :
        /\ Bounded(r.db)
        /\ db' = r.db
        /\ last' = [kind |-> "text", user |-> u, text |-> text, path |-> r.path, out |-> r.out,
                    acks |-> 0, alert |-> FALSE, committed |-> r.committed, raised |-> FALSE,
                    callback_id |-> FALSE, fault |-> fault]
        /\ lastRated' = NoteRated(lastRated, Rated(u, r.out, r.committed))
        /\ UNCHANGED <<gemini, tx>>

\* an inline button press arrives and handle_callback_query handles it
CallbackTurn(u, data, callback_id, chat_id, fault) ==
    \E r \in {handle_callback_query(db, u, data, callback_id, chat_id, fault)} :
        /\ Bounded(r.db)
        /\ db' = r.db
        /\ last' = [kind |-> "callback", user |-> u, text |-> data, path |-> "callback", out |-> r.out,
                    acks |-> r.acks, alert |-> r.alert, committed |-> ~r.raised, raised |-> r.raised,
                    callback_id |-> callback_id, fault |-> fault]
        /\ lastRated' = NoteRated(lastRated, Rated(u, r.out, ~r.raised))
        /\ UNCHANGED <<gemini, tx>>

(***************************************************************************)
(* The inputs of the model.                                                 *)
(***************************************************************************)
N_sapi_rica == <<"S","a","p","i"," ","R","i","c","a">>
N_sapi_semur == <<"S","a","p","i"," ","S","e","m","u","r">>
R_enak == <<"e","n","a","k">>
A_x == <<"x">>

NoRecipe == [nama_masakan |-> <<>>, tingkat_kesulitan |-> <<>>, bahan |-> <<>>, langkah |-> <<>>]
NoAI == [http |-> FALSE, json |-> FALSE, recipe |-> NoRecipe]

\* a catalog of one recipe, as an ingestion leaves it
OneMenuDb ==
    [EmptyDb EXCEPT !.menu = {[id_menu |-> 1, nama_masakan |-> N_sapi_rica,
                               tingkat_kesulitan |-> S_easy, source_url |-> S_gemini_addmenu]}]

(***************************************************************************)
(* SpecRating: /start, /rating and rate: callbacks over a one-recipe catalog *)
(***************************************************************************)
RatingArgs ==
    {<<IntStr(1), IntStr(2)>>, <<IntStr(1), IntStr(5)>>, <<IntStr(1), IntStr(0)>>, <<IntStr(1), IntStr(9)>>,
     <<IntStr(7), IntStr(5)>>, <<A_x, IntStr(5)>>, <<IntStr(1), A_x>>}
RatingTexts ==
    {C_start, Join(<<C_rating, IntStr(1)>>)}
    \cup {Join(<<C_rating, a[1], a[2]>>) : a \in RatingArgs}
    \cup {Join(<<C_rating, IntStr(1), n, R_enak>>) : n \in {IntStr(2), IntStr(5)}}
RateDatas ==
    {D_rate \o a[1] \o <<":">> \o a[2] : a \in RatingArgs}
    \cup {D_rate \o IntStr(1), D_rate \o IntStr(1) \o <<":">> \o IntStr(5) \o <<":">> \o IntStr(5)}

InitRating ==
    /\ db = OneMenuDb
    /\ gemini = FALSE
    /\ last = NoTurn
    /\ lastRated = {}
    /\ tx = <<>>

RatingText == \E u \in Users : \E text \in RatingTexts : TextTurn(u, text, NoAI, "none")
RatingCallback == \E u \in Users : \E data \in RateDatas : CallbackTurn(u, data, TRUE, TRUE, "none")

NextRating == RatingText \/ RatingCallback

SpecRating == InitRating /\ [][NextRating]_vars

\* C1: after any sequence of successful /rating commands and rate: callbacks there is
\* at most one rating row per (user, recipe), a row exists exactly when the user rated
\* the recipe successfully, and its score is that of the latest successful rating
C1_OneRatingWithLatestScore ==
    \A u \in Users : \A m \in db.menu :
        \E rows \in {RatingOf(NewSession(db), u, m.id_menu)} :
        \E rated \in {{l \in lastRated : l.user = u /\ l.id_menu = m.id_menu}} :
            /\ Cardinality(rows) <= 1
            /\ (rows = {}) = (rated = {})
            /\ \A r \in rows : \A l \in rated : r.rating_menu = l.nilai

\* C1 witness: a committed turn overwrote an existing rating with another score
C1_Witness ==
    /\ last.committed
    /\ last.out # <<>>
    /\ last.out[1].tag \in {"rating_diperbarui", "cb_rating_diperbarui"}
    /\ last.out[1].b = 5
    /\ \E r \in db.rating : r.telegram_user_id = last.user /\ r.id_menu = 1 /\ r.rating_menu = 5
    /\ \E l \in lastRated : l.user # last.user /\ l.nilai = 2

\* the users and ratings a turn leaves in the store
RatingState(d) == [users |-> d.users, rating |-> d.rating]

\* C7: for every user with a User row, every recipe and every score in 1..5, the
\* payload rate:<id>:<score> and the text /rating <id> <score> leave the same User rows
\* and Rating rows (the stored review included) when started from the same store.
\* (For a user without a User row the two differ as well: the command's turn fails.)
C7_CallbackEqualsCommand ==
    \A u \in db.users : \A m \in db.menu : \A n \in 1..5 :
        \E cmd \in {telegram_webhook(db, gemini, u, Join(<<C_rating, IntStr(m.id_menu), IntStr(n)>>),
                                     NoAI, "none")} :
        \E cb \in {handle_callback_query(db, u, D_rate \o IntStr(m.id_menu) \o <<":">> \o IntStr(n),
                                         TRUE, TRUE, "none")} :
            RatingState(cmd.db) = RatingState(cb.db)

(***************************************************************************)
(* SpecScore: /start, /rating and rate: callbacks with scores in and out of *)
(* range, over a one-recipe catalog                                         *)
(***************************************************************************)
ScoreTexts ==
    {C_start, Join(<<C_rating, IntStr(1), IntStr(2)>>), Join(<<C_rating, IntStr(1), IntStr(0)>>),
     Join(<<C_rating, IntStr(7), IntStr(9)>>)}
ScoreDatas == {D_rate \o IntStr(1) \o <<":">> \o n : n \in {IntStr(5), IntStr(9)}}

ScoreText == \E u \in Users : \E text \in ScoreTexts : TextTurn(u, text, NoAI, "none")
ScoreCallback == \E u \in Users : \E data \in ScoreDatas : CallbackTurn(u, data, TRUE, TRUE, "none")

NextScore == ScoreText \/ ScoreCallback

SpecScore == InitRating /\ [][NextScore]_vars

\* scores outside 1..5, as they are written in a message
OutOfRange == {IntStr(0), IntStr(6), IntStr(9), <<"-">> \o IntStr(1)}

\* C14: every stored rating has a score in 1..5, and a score outside 1..5 sent with
\* /rating or with a rate: callback is rejected: no rating row is written or changed
\* (the text turn stores nothing but the User row of line 888, the callback nothing)
C14_ScoreInRange ==
    /\ \A r \in db.rating : r.rating_menu \in 1..5
    /\ \A u \in Users : \A n \in OutOfRange :
          \E cmd \in {telegram_webhook(db, gemini, u, Join(<<C_rating, IntStr(1), n>>), NoAI, "none")} :
          \E cb \in {handle_callback_query(db, u, D_rate \o IntStr(1) \o <<":">> \o n, TRUE, TRUE, "none")} :
              /\ cmd.db = [db EXCEPT !.users = @ \cup {u}] /\ cmd.out = <<Msg("rating_range", 0, 0)>>
              /\ cb.db = db /\ cb.out = <<>> /\ ~cb.raised

\* C14 witness: a user whose rating of recipe 1 is 2 sent a score outside 1..5 for it
\* and was told the range; the stored score is still 2
C14_Witness ==
    /\ last.kind = "text" /\ last.out = <<Msg("rating_range", 0, 0)>>
    /\ \E r \in db.rating : r.telegram_user_id = last.user /\ r.id_menu = 1 /\ r.rating_menu = 2

\* /rating texts that fail validation, each with the reply the code gives it: too few
\* arguments, a non-numeric argument, a score outside 1..5, a recipe id of no recipe
InvalidRatings ==
    {<<C_rating, "rating_format">>, <<Join(<<C_rating, IntStr(1)>>), "rating_format">>,
     <<Join(<<C_rating, A_x, IntStr(5)>>), "rating_format_salah">>,
     <<Join(<<C_rating, IntStr(1), A_x>>), "rating_format_salah">>,
     <<Join(<<C_rating, IntStr(1), IntStr(0)>>), "rating_range">>,
     <<Join(<<C_rating, IntStr(1), IntStr(6), R_enak>>), "rating_range">>,
     <<Join(<<C_rating, IntStr(7), IntStr(9)>>), "rating_range">>,
     <<Join(<<C_rating, IntStr(7), IntStr(5)>>), "menu_tidak_ditemukan">>}

\* C15: a /rating that fails validation is answered with its validation message and
\* nothing else, the turn ends without a fault, and no rating row is created or changed
C15_InvalidRatingRejected ==
    \A u \in Users : \A inv \in InvalidRatings :
        \E r \in {telegram_webhook(db, gemini, u, inv[1], NoAI, "none")} :
            /\ Len(r.out) = 1 /\ r.out[1].tag = inv[2]
            /\ r.committed
            /\ r.db.rating = db.rating

\* C15 witness: /rating 7 9 was answered with a validation message while the store
\* holds a rating of that user, and recipe 7 is not in the catalog
C15_Witness ==
    /\ last.kind = "text" /\ last.text = Join(<<C_rating, IntStr(7), IntStr(9)>>)
    /\ last.out = <<Msg("rating_range", 0, 0)>> /\ last.committed
    /\ \E r \in db.rating : r.telegram_user_id = last.user
    /\ GetMenu(NewSession(db), 7) = {}

(***************************************************************************)
(* SpecPantang: /start and /pantang over a catalog of one ingredient        *)
(***************************************************************************)
N_udang == <<"U","d","a","n","g">>
T_udang == <<"u","d","a","n","g">>
T_tempe == <<"t","e","m","p","e">>
T_foo == <<"f","o","o">>

\* a catalog of one ingredient, as an ingestion leaves it
OneBahanDb == [EmptyDb EXCEPT !.bahan = {[id_bahan |-> 1, nama_bahan |-> N_udang, satuan_bahan |-> S_unit]}]

\* the arguments of "tambah"
PantangRaws ==
    {T_udang, Join(<<T_udang, S_alergi>>), Join(<<T_udang, S_pantangan>>),
     Join(<<T_tempe, S_alergi>>), S_alergi}
PantangTexts ==
    {C_start, C_pantang, Join(<<C_pantang, S_tambah>>), Join(<<C_pantang, S_hapus>>),
     Join(<<C_pantang, S_hapus, T_udang>>), Join(<<C_pantang, S_hapus, T_foo>>),
     Join(<<C_pantang, T_foo>>)}
    \cup {Join(<<C_pantang, S_tambah, raw>>) : raw \in PantangRaws}

InitPantang ==
    /\ db = OneBahanDb
    /\ gemini = FALSE
    /\ last = NoTurn
    /\ lastRated = {}
    /\ tx = <<>>

PantangText == \E u \in Users : \E text \in PantangTexts : TextTurn(u, text, NoAI, "none")
PantangCallback == \E u \in Users : CallbackTurn(u, D_pantang_view, TRUE, TRUE, "none")

NextPantang == PantangText \/ PantangCallback

SpecPantang == InitPantang /\ [][NextPantang]_vars

\* the argument of a "/pantang tambah <argument>" text, <<>> for any other text
TambahArg(text) ==
    Let(SplitMax(Strip(text), 2), LAMBDA parts :
        IF Len(parts) = 3 /\ Lower(parts[1]) = C_pantang /\ Lower(parts[2]) \in {S_tambah, S_add, S_plus}
        THEN Strip(parts[3]) ELSE <<>>)

\* the turn reported a restriction Add
ReportedAdd(turn) ==
    turn.kind = "text" /\ turn.out # <<>> /\ turn.out[1].tag \in {"pantang_dibuat", "pantang_diterapkan"}

\* C2: when a user repeats a /pantang tambah right after it was answered as an Add,
\* the Restriction and Ingredient rows stay as the first call left them and the
\* second call reports every matched ingredient as updated (added = 0)
C2_AddIdempotent ==
    ReportedAdd(last) =>
        \E second \in {telegram_webhook(db, gemini, last.user, last.text, NoAI, "none")} :
            /\ second.db.pantang = db.pantang
            /\ second.db.bahan = db.bahan
            /\ second.out = <<Msg("pantang_diterapkan", 0, second.out[1].b)>>

\* the kind and the ingredient phrase of an argument whose trailing token is taken as
\* the kind when it is one of the two keywords
KindOf(raw) ==
    Let(Split(raw), LAMBDA toks :
        IF Lower(toks[Len(toks)]) \in {S_pantangan, S_alergi} THEN Lower(toks[Len(toks)]) ELSE S_pantangan)
PhraseOf(raw) ==
    Let(Split(raw), LAMBDA toks :
        IF Lower(toks[Len(toks)]) \in {S_pantangan, S_alergi}
        THEN Strip(Join(SubSeq(toks, 1, Len(toks) - 1))) ELSE raw)

\* the store a committed Add of (phrase, kind) by a user with a User row leaves
AddOutcome(d, u, phrase, kind) ==
    IF phrase = <<>> THEN d
    ELSE Let(pantang_tambah(NewSession(d), u, phrase, kind), LAMBDA r : Flush(r.s).s.db)

\* C10: for a user with a User row, /pantang tambah <raw> leaves the store that an Add
\* of (phrase, kind) leaves, where a trailing pantangan or alergi is the kind and not part
\* of the phrase, and otherwise the kind is pantangan and the phrase is the whole argument
C10_TrailingKindNotInPhrase ==
    \A u \in db.users : \A raw \in PantangRaws :
        \E r \in {telegram_webhook(db, gemini, u, Join(<<C_pantang, S_tambah, raw>>), NoAI, "none")} :
            Bounded(r.db) => r.db = AddOutcome(db, u, PhraseOf(raw), KindOf(raw))

\* the rows of user u in the restriction table
PantangRowsOf(d, u) == {p \in d.pantang : p.telegram_user_id = u}

\* C11: a /pantang tambah whose phrase is contained in no ingredient name creates one
\* ingredient, named after the phrase with the unit "unit", and one restriction row of
\* the user on it, of the requested kind
C11_AddCreatesOneIngredient ==
    \A u \in Users : \A raw \in PantangRaws :
        \E jenis \in {PantangJenis(raw)} : \E phrase \in {PantangNama(raw, PantangJenis(raw))} :
            (phrase # <<>> /\ BahanLike(NewSession(db), phrase) = {}) =>
                \E r \in {telegram_webhook(db, gemini, u, Join(<<C_pantang, S_tambah, raw>>), NoAI, "none")} :
                    Bounded(r.db) =>
                        /\ \E b \in r.db.bahan \ db.bahan :
                              /\ r.db.bahan \ db.bahan = {b}
                              /\ b.nama_bahan = phrase /\ b.satuan_bahan = S_unit
                              /\ PantangRowsOf(r.db, u) \ PantangRowsOf(db, u) =
                                     {[telegram_user_id |-> u, id_bahan |-> b.id_bahan, jenis |-> jenis]}
                        /\ db.bahan \subseteq r.db.bahan

(***************************************************************************)
(* SpecMark: /start, three Adds and a Remove over a catalog of one          *)
(* ingredient                                                               *)
(***************************************************************************)
MarkTexts ==
    {C_start, Join(<<C_pantang, S_hapus, T_udang>>)}
    \cup {Join(<<C_pantang, S_tambah, raw>>) :
             raw \in {T_udang, Join(<<T_udang, S_alergi>>), Join(<<T_udang, S_pantangan>>)}}

MarkText == \E u \in Users : \E text \in MarkTexts : TextTurn(u, text, NoAI, "none")

SpecMark == InitPantang /\ [][MarkText]_vars

\* the rows of user u on ingredient b
PantangRowsOn(d, u, b) == {p \in PantangRowsOf(d, u) : p.id_bahan = b.id_bahan}

\* C12: after a successful /pantang tambah of (phrase, kind) by u, every ingredient whose
\* name contains the phrase has one restriction row of u, of the requested kind, and u
\* has as many more rows than before as there are matched ingredients that had none
C12_AddMarksEveryMatch ==
    \A u \in Users : \A raw \in PantangRaws :
        \E jenis \in {PantangJenis(raw)} : \E phrase \in {PantangNama(raw, PantangJenis(raw))} :
        \E r \in {telegram_webhook(db, gemini, u, Join(<<C_pantang, S_tambah, raw>>), NoAI, "none")} :
            (r.committed /\ r.out[1].tag \in {"pantang_dibuat", "pantang_diterapkan"} /\ Bounded(r.db)) =>
                \E matched \in {BahanLike(NewSession(r.db), phrase)} :
                    /\ matched # {}
                    /\ \A b \in matched :
                          PantangRowsOn(r.db, u, b) =
                              {[telegram_user_id |-> u, id_bahan |-> b.id_bahan, jenis |-> jenis]}
                    /\ Cardinality(PantangRowsOf(r.db, u)) =
                          Cardinality(PantangRowsOf(db, u))
                          + Cardinality({b \in matched : PantangRowsOn(db, u, b) = {}})

\* C12 witness: a committed Add of kind alergi matched two ingredients, one that had a
\* row of the user and one that had none; another user's row on one of them is as it was
C12_Witness ==
    /\ ReportedAdd(last) /\ last.committed
    /\ last.out[1] = Msg("pantang_diterapkan", 1, 1)
    /\ PantangJenis(TambahArg(last.text)) = S_alergi
    /\ \A p \in PantangRowsOf(db, last.user) : p.jenis = S_alergi
    /\ Cardinality(PantangRowsOf(db, last.user)) = 2
    /\ \E p \in db.pantang : p.telegram_user_id # last.user /\ p.jenis = S_pantangan

\* the fragments of "hapus"
HapusFragments == {T_udang, T_tempe, T_foo, S_pantangan}

T_sapi == <<"s","a","p","i">>
T_cabai == <<"c","a","b","a","i">>
T_gram == <<"g","r","a","m">>
T_potong == <<"p","o","t","o","n","g">>
T_tumis == <<"t","u","m","i","s">>
T_rebus == <<"r","e","b","u","s">>
N_sapi_rica_lower == <<"s","a","p","i"," ","r","i","c","a">>
T_url == <<"h","t","t","p",":","/","/","x">>
T_blank == <<" ">>

Entry(nama, satuan, jumlah) == [dict |-> TRUE, nama |-> nama, satuan |-> satuan, jumlah |-> jumlah]

\* an entry of "bahan" that is no JSON object
BadEntry == [dict |-> FALSE, nama |-> <<>>, satuan |-> <<>>, jumlah |-> 0]

R_rica ==
    [nama_masakan |-> N_sapi_rica, tingkat_kesulitan |-> S_medium,
     bahan |-> <<Entry(T_sapi, T_gram, 500), Entry(T_cabai, <<>>, 5)>>,
     langkah |-> <<T_potong, T_blank, T_tumis>>]
R_rica_again ==
    [nama_masakan |-> N_sapi_rica_lower, tingkat_kesulitan |-> <<>>,
     bahan |-> <<Entry(T_blank, <<>>, 1), Entry(T_cabai, <<>>, 3)>>,
     langkah |-> <<T_rebus>>]
R_rica_bad ==
    [nama_masakan |-> N_sapi_rica, tingkat_kesulitan |-> S_hard,
     bahan |-> <<Entry(T_sapi, T_gram, 250), BadEntry>>,
     langkah |-> <<T_rebus>>]
R_semur ==
    [nama_masakan |-> N_sapi_semur, tingkat_kesulitan |-> S_easy,
     bahan |-> <<Entry(T_sapi, T_gram, 300)>>,
     langkah |-> <<T_rebus, T_tumis>>]

Recipes == {R_rica, R_rica_again, R_rica_bad, R_semur, NoRecipe}

Answered(recipe) == [http |-> TRUE, json |-> TRUE, recipe |-> recipe]

Input(text, ai, fault) == [text |-> text, ai |-> ai, fault |-> fault]

\* fault "save": a storage error at the first ingredient lookup; "commit": at the commit
IngestInputs ==
    {Input(C_addmenu, NoAI, "none"), Input(Join(<<C_addmenu, T_sapi>>), NoAI, "none"),
     Input(Join(<<C_addmenulink, T_url>>), Answered(R_semur), "none")}
    \cup {Input(Join(<<C_addmenu, T_sapi>>), Answered(recipe), "none") : recipe \in Recipes}
    \cup {Input(Join(<<C_addmenu, T_sapi>>), Answered(recipe), fault) :
              recipe \in {R_rica, R_rica_again}, fault \in {"save", "commit"}}

InitIngest ==
    /\ db = EmptyDb
    /\ gemini = TRUE
    /\ last = NoTurn
    /\ lastRated = {}
    /\ tx = <<>>

IngestText == \E u \in Users : \E i \in IngestInputs : TextTurn(u, i.text, i.ai, i.fault)

NextIngest == IngestText

SpecIngest == InitIngest /\ [][NextIngest]_vars

\* the recipe, ingredient, link and step rows
Catalog(d) == [menu |-> d.menu, bahan |-> d.bahan, menu_bahan |-> d.menu_bahan, menu_langkah |-> d.menu_langkah]

\* the rows of named recipes
Named(d, nama) == {m \in d.menu : SameName(m.nama_masakan, Strip(nama))}

\* the links a record asks for: one per entry with a name, to the ingredient of that name
LinksOf(d, id_menu, recipe) ==
    {[id_menu |-> id_menu, id_bahan |-> b.id_bahan, banyak_bahan |-> recipe.bahan[i].jumlah] :
        <<i, b>> \in {<<i, b>> \in (1..Len(recipe.bahan)) \X d.bahan :
                        /\ Strip(recipe.bahan[i].nama) # <<>>
                        /\ SameName(b.nama_bahan, Strip(recipe.bahan[i].nama))}}

\* the step texts a record holds, blanks left out
StepTexts(recipe) == {Strip(recipe.langkah[i]) : i \in 1..Len(recipe.langkah)} \ {<<>>}

\* the turn that ingests recipe for user u
Ingest(d, u, recipe, fault) ==
    telegram_webhook(d, TRUE, u, Join(<<C_addmenu, T_sapi>>), Answered(recipe), fault)

\* C3: a successful ingestion of a record whose name is in the catalog leaves one
\* recipe row of that name, with the id it had, no other recipe row added, and as its
\* links and steps exactly those of the record
C3_ReingestReplaces ==
    \A u \in Users : \A recipe \in Recipes :
        \E r \in {Ingest(db, u, recipe, "none")} :
            (r.committed /\ r.out[1].tag = "menu_diperbarui") =>
                /\ Named(db, recipe.nama_masakan) # {}
                /\ {m.id_menu : m \in Named(r.db, recipe.nama_masakan)}
                       = {m.id_menu : m \in Named(db, recipe.nama_masakan)}
                /\ Cardinality(Named(r.db, recipe.nama_masakan)) = 1
                /\ Cardinality(r.db.menu) = Cardinality(db.menu)
                /\ {l \in r.db.menu_bahan : l.id_menu = r.out[1].a} = LinksOf(r.db, r.out[1].a, recipe)
                /\ {l.deskripsi : l \in {x \in r.db.menu_langkah : x.id_menu = r.out[1].a}} = StepTexts(recipe)
                /\ Cardinality({x \in r.db.menu_langkah : x.id_menu = r.out[1].a})
                       = Cardinality(StepTexts(recipe))

\* C3 witness: "sapi rica" was ingested over "Sapi Rica": of the earlier links and
\* steps none is left, the ingredient of the earlier link is still in the catalog
C3_Witness ==
    /\ last.committed
    /\ last.out # <<>>
    /\ last.out[1].tag = "menu_diperbarui"
    /\ \E b \in db.bahan : b.nama_bahan = T_sapi
    /\ {l \in db.menu_bahan : l.id_menu = last.out[1].a} = LinksOf(db, last.out[1].a, R_rica_again)
    /\ {l.deskripsi : l \in {x \in db.menu_langkah : x.id_menu = last.out[1].a}} = {T_rebus}
    /\ Cardinality(db.menu) = 2

\* C4: an ingestion that fails (a malformed entry, a storage error at an ingredient
\* lookup or at the commit) leaves every recipe, ingredient, link and step row as
\* it was before the turn
C4_FailedIngestChangesNothing ==
    \A u \in Users : \A i \in IngestInputs :
        \E r \in {telegram_webhook(db, gemini, u, i.text, i.ai, i.fault)} :
            (~r.committed \/ r.out[1].tag \in {"menu_belum_disimpan", "addmenu_kesalahan"})
                => Catalog(r.db) = Catalog(db)

(***************************************************************************)
(* SpecDispatch: texts of every pathway over a one-recipe catalog, the AI   *)
(* not configured                                                           *)
(***************************************************************************)
T_help_rekomendasi == <<"/","h","e","l","p"," ","r","e","k","o","m","e","n","d","a","s","i">>
T_slash_sapi_rica == <<"/","S","a","p","i"," ","R","i","c","a">>
T_halo_rekom == <<"h","a","l","o",","," ","k","a","s","i","h"," ","r","e","k","o","m"," ","d","o","n","g">>
T_bingung == <<"b","i","n","g","u","n","g"," ","m","a","u"," ","m","a","s","a","k"," ","a","p","a">>
T_halo == <<"H","a","l","o","o","o">>
T_makasih == <<"m","a","k","a","s","i","h"," ","y","a">>
T_sapi_rica == <<"r","e","s","e","p"," ","s","a","p","i"," ","r","i","c","a">>
T_nasi_goreng == <<"n","a","s","i"," ","g","o","r","e","n","g">>

DispatchTexts ==
    {C_start, T_help_rekomendasi, C_id, C_history, C_pantang, C_rating, C_menu,
     Join(<<C_addmenu, T_sapi>>), Join(<<C_addmenulink, T_url>>), T_slash_sapi_rica,
     T_halo_rekom, T_bingung, T_halo, T_makasih, T_sapi_rica, T_nasi_goreng}

InitDispatch ==
    /\ db = OneMenuDb
    /\ gemini = FALSE
    /\ last = NoTurn
    /\ lastRated = {}
    /\ tx = <<>>

DispatchText == \E u \in Users : \E text \in DispatchTexts : TextTurn(u, text, NoAI, "none")

NextDispatch == DispatchText

SpecDispatch == InitDispatch /\ [][NextDispatch]_vars

\* C8: a text that starts with /addmenulink is answered by the URL-extraction handler
\* (lines 714-739), as the help text documents
C8_AddMenuLinkToUrlHandler ==
    \A u \in Users : \A text \in DispatchTexts :
        StartsWith(Lower(text), C_addmenulink) =>
            \E r \in {telegram_webhook(db, gemini, u, text, NoAI, "none")} :
            \E h \in {addmenulink_branch(ensure_user(NewSession(db), u), gemini, text, NoAI, "none")} :
                r.out = <<h.reply>>

\* the pathways the messages of a turn come from
PathwaysOf(out) ==
    {IF out[i].tag = "rekomendasi" THEN "recommendation"
     ELSE IF out[i].tag \in {"halo", "bye", "thanks"} THEN "smalltalk"
     ELSE IF out[i].tag \in {"answer", "beri_rating", "belum_menemukan"} THEN "freetext"
     ELSE "command" : i \in {j \in 1..Len(out) : out[j] # APOLOGY}}

\* C9: a text turn is handled by one pathway, the first of command (the text starts
\* with "/"), recommendation intent, small-talk intent, free text; a text that starts
\* with "/" adds no history row and gets no reply of another pathway
C9_OnePathwayInOrder ==
    \A u \in Users : \A text \in DispatchTexts :
        \E r \in {telegram_webhook(db, gemini, u, text, NoAI, "none")} :
            /\ PathwaysOf(r.out) = {r.path}
            /\ r.path = IF StartsWith(text, S_slash) THEN "command"
                        ELSE IF is_recommendation_intent(text) THEN "recommendation"
                        ELSE IF is_smalltalk(text) # "" THEN "smalltalk"
                        ELSE "freetext"
            /\ r.path # "freetext" => r.db.riwayat = db.riwayat

\* C9 witness: a text that greets and asks for a recommendation got the recommendation
\* reply alone, and the history holds the row of one earlier free-text turn
C9_Witness ==
    /\ last.text = T_halo_rekom
    /\ is_smalltalk(last.text) = "halo"
    /\ is_recommendation_intent(last.text)
    /\ last.out = <<Msg("rekomendasi", 1, 0)>>
    /\ Len(db.riwayat) = 1

\* the storage errors of a text turn: at the session's first statement, at the commit
TurnFaults == {"first", "commit"}

\* C17: when the storage fails during a text turn, at a statement or at the commit, the
\* user gets one message for the turn, the apology, and the store is as it was before
C17_FailureOneApologyNoChange ==
    \A u \in Users : \A text \in DispatchTexts : \A fault \in TurnFaults :
        \E r \in {telegram_webhook(db, gemini, u, text, NoAI, fault)} :
            /\ r.out = <<APOLOGY>>
            /\ r.db = db

(***************************************************************************)
(* SpecCallback: button presses with every payload, with and without the    *)
(* callback id, the chat and the user id, and with storage errors           *)
(***************************************************************************)
D_unknown == <<"a","p","a","_","i","n","i">>

CallbackDatas ==
    {D_history, D_help_from_start, D_pantang_manage, D_pantang_view, D_menu_list, D_menu_add,
     D_menu_add_link, D_rekomendasi, D_unknown, D_rate \o IntStr(1),
     D_rate \o IntStr(1) \o <<":">> \o IntStr(5), D_rate \o IntStr(1) \o <<":">> \o IntStr(9),
     D_rate \o A_x \o <<":">> \o IntStr(5), D_rate \o IntStr(7) \o <<":">> \o IntStr(2)}

\* fault "first": a storage error at the block's first statement; "commit": at its commit
CallbackFaults == {"none", "first", "commit"}

InitCallback ==
    /\ db = OneMenuDb
    /\ gemini = FALSE
    /\ last = NoTurn
    /\ lastRated = {}
    /\ tx = <<>>

\* a press that carries everything, whatever the storage does
CallbackPress ==
    \E u \in Users : \E data \in CallbackDatas : \E fault \in CallbackFaults :
        CallbackTurn(u, data, TRUE, TRUE, fault)

\* a press that lacks the callback id, the chat or the user id
CallbackPartial ==
    \E u \in Users \cup {NONE_ID} : \E data \in CallbackDatas :
    \E callback_id \in BOOLEAN : \E chat_id \in BOOLEAN :
        /\ ~callback_id \/ ~chat_id \/ u = NONE_ID
        /\ CallbackTurn(u, data, callback_id, chat_id, "none")

NextCallback == CallbackPress \/ CallbackPartial

SpecCallback == InitCallback /\ [][NextCallback]_vars

\* C6: a callback that carries a callback id is acknowledged exactly once, whatever its
\* payload and whatever the outcome of the branch's storage access
C6_AcknowledgedOnce == (last.kind = "callback" /\ last.callback_id) => last.acks = 1

\* malformed rate payloads, each with whether its score is a number outside 1..5:
\* a field count other than 3, a non-numeric recipe id or score, a score out of range
MalformedRates ==
    {<<D_rate, FALSE>>, <<D_rate \o IntStr(1), FALSE>>,
     <<D_rate \o IntStr(1) \o <<":">> \o IntStr(5) \o <<":">> \o IntStr(5), FALSE>>,
     <<D_rate \o A_x \o <<":">> \o IntStr(5), FALSE>>,
     <<D_rate \o IntStr(1) \o <<":">> \o A_x, FALSE>>,
     <<D_rate \o <<":">> \o IntStr(5), FALSE>>,
     <<D_rate \o IntStr(1) \o <<":">> \o IntStr(0), TRUE>>,
     <<D_rate \o IntStr(1) \o <<":">> \o IntStr(9), TRUE>>,
     <<D_rate \o IntStr(3) \o <<":">> \o IntStr(6), TRUE>>}

\* C16: a malformed rate payload is acknowledged once and is otherwise a no-op: no row
\* is written, no message is sent and no exception leaves the handler; the
\* acknowledgement is an alert exactly when the score is a number outside 1..5
C16_MalformedPayloadNoOp ==
    \A u \in Users : \A mal \in MalformedRates : \A fault \in CallbackFaults :
        \E r \in {handle_callback_query(db, u, mal[1], TRUE, TRUE, fault)} :
            /\ r.acks = 1 /\ ~r.raised
            /\ r.db = db /\ r.out = <<>>
            /\ r.alert = mal[2]

\* C16 witness: rate:1:9 was acknowledged with an alert; the rating the user stored
\* before is as it was
C16_Witness ==
    /\ last.kind = "callback" /\ last.text = D_rate \o IntStr(1) \o <<":">> \o IntStr(9)
    /\ last.acks = 1 /\ last.alert /\ ~last.raised /\ last.out = <<>>
    /\ \E r \in db.rating : r.telegram_user_id = last.user /\ r.rating_menu = 5

(***************************************************************************)
(* SpecConc: text turns that overlap.  A turn runs the body of its block    *)
(* against the store as it is then (its reads), and later reaches the exit  *)
(* of get_session, where its writes are flushed and committed against the   *)
(* store as it is by then.  The turns here write users, rating and pantang, *)
(* and bahan: the INSERT of line 518 is flushed inside the block, and the   *)
(* unique index on nama_bahan makes the later of two overlapping INSERTs of *)
(* one name fail there, before the turn's reply is sent.                    *)
(***************************************************************************)
MaxTx == 2

\* rows of now with the key of none of the rows in mine
Untouched(now, mine, Key(_)) == {r \in now : \A c \in mine : Key(c) # Key(r)}

RatingKey(r) == <<r.telegram_user_id, r.id_menu>>
PantangKey(r) == <<r.telegram_user_id, r.id_bahan>>

\* what a transaction that read base and left the session s will write at its commit:
\* the rows it changed in place (UPDATEs by key) and its pending objects (INSERTs)
Writes(base, s) ==
    [rating |-> s.db.rating \ base.rating, pantang |-> s.db.pantang \ base.pantang,
     bahan |-> s.db.bahan \ base.bahan, new |-> s.new, dead |-> s.dead]

\* the session of a transaction with the writes w, over the store as it is now
Resume(now, w) ==
    [db |-> [now EXCEPT !.rating = Untouched(@, w.rating, RatingKey) \cup w.rating,
                        !.pantang = Untouched(@, w.pantang, PantangKey) \cup w.pantang,
                        !.bahan = @ \cup w.bahan],
     new |-> w.new, dead |-> w.dead]

\* the flush of line 518 meets an ingredient of the same name that an overlapping turn
\* inserted: IntegrityError inside handle_pantang_command
BahanConflict(now, w) == \E b \in w.bahan : \E c \in now.bahan : SameName(b.nama_bahan, c.nama_bahan)

\* every user has a User row; one recipe and one ingredient are in the catalog
ConcDb == [OneMenuDb EXCEPT !.users = Users, !.bahan = OneBahanDb.bahan]

ConcTexts == {Join(<<C_rating, IntStr(1), IntStr(5)>>), Join(<<C_pantang, S_tambah, T_udang>>)}

InitConc ==
    /\ db = ConcDb
    /\ gemini = FALSE
    /\ last = NoTurn
    /\ lastRated = {}
    /\ tx = <<>>

\* lines 887-899 of a turn: the block's body has run, its reply is sent
ConcBeginTurn(u, text) ==
    \E body \in {webhook_body(db, gemini, u, Strip(text), NoAI, "none")} :
        /\ Len(tx) < MaxTx
        /\ tx' = Append(tx, [user |-> u, text |-> text, out |-> body.out, path |-> body.path,
                             raised |-> body.raised, writes |-> Writes(db, body.s)])
        /\ UNCHANGED <<db, gemini, last, lastRated>>

ConcBegin == \E u \in Users : \E text \in ConcTexts : ConcBeginTurn(u, text)

\* the turn of tx[i] at the exit of get_session, and the apology of line 946 if it raises
ConcExit(i) ==
    \E t \in {tx[i]} :
    \E early \in {BahanConflict(db, t.writes)} :
    \E done \in {IF early THEN [db |-> db, raised |-> TRUE]
                 ELSE get_session_exit(db, [s |-> Resume(db, t.writes), raised |-> t.raised], "none")} :
        /\ db' = done.db
        /\ tx' = SubSeq(tx, 1, i - 1) \o SubSeq(tx, i + 1, Len(tx))
        /\ last' = [kind |-> "text", user |-> t.user, text |-> t.text, path |-> t.path,
                    out |-> IF early THEN <<APOLOGY>>
                            ELSE IF done.raised THEN Append(t.out, APOLOGY) ELSE t.out,
                    acks |-> 0, alert |-> FALSE, committed |-> ~done.raised, raised |-> FALSE,
                    callback_id |-> FALSE, fault |-> "none"]
        /\ lastRated' = NoteRated(lastRated, Rated(t.user, t.out, ~done.raised))
        /\ UNCHANGED gemini

ConcCommit == \E i \in 1..Len(tx) : ConcExit(i)

NextConc == ConcBegin \/ ConcCommit

SpecConc == InitConc /\ [][NextConc]_vars

\* C5: a turn whose upsert found no row and meets the row of an overlapping turn of
\* the same user at its commit is completed: it does not end rolled back with the
\* apology
C5_UpsertConflictCompleted ==
    (/\ last.kind = "text"
     /\ last.out # <<>>
     /\ last.out[1] \in {Msg("rating_disimpan", 1, 5), Msg("pantang_diterapkan", 1, 0)})
        => last.committed /\ last.out[Len(last.out)] # APOLOGY

(***************************************************************************)
(* SpecIndep: overlapping text turns of different users; no user has two    *)
(* turns in flight.                                                         *)
(***************************************************************************)
IndepTexts ==
    {Join(<<C_rating, IntStr(1), IntStr(5)>>), Join(<<C_pantang, S_tambah, T_udang>>),
     Join(<<C_pantang, S_tambah, T_tempe>>)}

IndepBegin ==
    \E u \in Users : \E text \in IndepTexts :
        /\ \A i \in 1..Len(tx) : tx[i].user # u
        /\ ConcBeginTurn(u, text)

NextIndep == IndepBegin \/ ConcCommit

SpecIndep == InitConc /\ [][NextIndep]_vars

\* the rows the reply of a turn reports are in the store
Persisted(turn, d) ==
    IF TambahArg(turn.text) # <<>>
    THEN \E b \in BahanLike(NewSession(d), TambahArg(turn.text)) :
             PantangRowsOn(d, turn.user, b) = {[telegram_user_id |-> turn.user, id_bahan |-> b.id_bahan,
                                               jenis |-> S_pantangan]}
    ELSE \E r \in d.rating : r.telegram_user_id = turn.user /\ r.id_menu = 1 /\ r.rating_menu = 5

\* C18: a turn that overlaps only turns of other users ends as it would alone: it is
\* committed, its reply is the reply of its block and no apology, and the rows the reply
\* reports are stored
C18_OtherUsersIndependent ==
    last.kind = "text" =>
        /\ last.committed
        /\ Len(last.out) = 1 /\ last.out[1] # APOLOGY
        /\ Persisted(last, db)

(***************************************************************************)
(* SpecMatch: texts of every user over a catalog of two recipes, the AI not *)
(* configured.                                                              *)
(***************************************************************************)
TwoMenuDb ==
    [OneMenuDb EXCEPT !.menu = @ \cup {[id_menu |-> 2, nama_masakan |-> N_sapi_semur,
                                        tingkat_kesulitan |-> S_easy, source_url |-> S_gemini_addmenu]}]

InitMatch ==
    /\ db = TwoMenuDb
    /\ gemini = FALSE
    /\ last = NoTurn
    /\ lastRated = {}
    /\ tx = <<>>

\* free texts that name a recipe, and one that names none
MatchText == \E u \in Users : \E text \in {T_sapi_rica, T_sapi, T_nasi_goreng} : TextTurn(u, text, NoAI, "none")

MatchCallback == \E u \in Users : CallbackTurn(u, D_history, TRUE, TRUE, "none")

NextMatch == MatchText \/ MatchCallback

SpecMatch == InitMatch /\ [][NextMatch]_vars

\* texts of every pathway
MatchTexts ==
    {T_sapi_rica, T_sapi, T_nasi_goreng, T_halo, T_bingung, T_halo_rekom, C_history,
     T_slash_sapi_rica, Join(<<C_rating, IntStr(1), IntStr(5)>>)}

\* payloads of handle_callback_query that read or write the store
MatchDatas == {D_history, D_pantang_view, D_menu_list, D_rekomendasi, D_rate \o IntStr(1) \o <<":">> \o IntStr(4)}

\* the text takes the free-text pathway
IsFreeText(text) == ~StartsWith(text, S_slash) /\ ~is_recommendation_intent(text) /\ is_smalltalk(text) = ""

\* the recipes of the catalog with the score of their name for the text
Scored(d, text) ==
    Let(_normalize_name(Strip(text)), LAMBDA q_norm :
        {[m |-> m, score |-> score(m.nama_masakan, q_norm)] : m \in d.menu})

\* the top-ranked among the recipes that score above 0: the highest score, and the first
\* name among equal scores
TopRanked(scored) ==
    {x.m : x \in {x \in scored : /\ x.score > 0
                                 /\ \A o \in scored \ {x} :
                                       \/ x.score > o.score
                                       \/ x.score = o.score
                                          /\ StrLess(Lower(x.m.nama_masakan), Lower(o.m.nama_masakan))}}

\* C19: a free-text turn whose text matches a recipe appends one history row, of the
\* user and the top-ranked recipe; every other text turn and every callback leaves the
\* history as it is
C19_OneHistoryRowPerMatch ==
    /\ \A text \in MatchTexts :
          \E top \in {IF IsFreeText(text) THEN TopRanked(Scored(db, text)) ELSE {}} :
          \A u \in Users :
              \E r \in {telegram_webhook(db, gemini, u, text, NoAI, "none")} :
                  IF top # {}
                  THEN \E m \in top :
                           /\ top = {m}
                           /\ r.committed
                           /\ r.db.riwayat = Append(db.riwayat, [telegram_user_id |-> u, id_menu |-> m.id_menu,
                                                                 keterangan |-> text])
                  ELSE r.db.riwayat = db.riwayat
    /\ \A u \in Users : \A data \in MatchDatas :
          \E r \in {handle_callback_query(db, u, data, TRUE, TRUE, "none")} : r.db.riwayat = db.riwayat

\* C19 witness: "resep sapi rica" scores above 0 for both recipes; the turn stored one
\* row, for the user and Sapi Rica, after a turn of another user that stored one too
C19_Witness ==
    /\ last.kind = "text" /\ last.text = T_sapi_rica /\ last.committed
    /\ \A x \in Scored(db, last.text) : x.score > 0
    /\ Len(db.riwayat) = 2
    /\ db.riwayat[1].telegram_user_id # last.user
    /\ db.riwayat[2] = [telegram_user_id |-> last.user, id_menu |-> 1, keterangan |-> T_sapi_rica]

(***************************************************************************)
(* SpecHistory: free texts of every user over a catalog of two recipes,     *)
(* with the AI configured; the first user also rates the first recipe,      *)
(* marks an ingredient and re-ingests the first recipe.                     *)
(***************************************************************************)
InitHistory ==
    /\ db = TwoMenuDb
    /\ gemini = TRUE
    /\ last = NoTurn
    /\ lastRated = {}
    /\ tx = <<>>

HistoryFreeText == \E u \in Users : TextTurn(u, T_sapi_rica, NoAI, "none")

HistoryCommand ==
    \E i \in {Input(Join(<<C_rating, IntStr(1), IntStr(5)>>), NoAI, "none"),
              Input(Join(<<C_pantang, S_tambah, T_udang>>), NoAI, "none"),
              Input(Join(<<C_addmenu, T_sapi>>), Answered(R_rica_again), "none")} :
        TextTurn(1, i.text, i.ai, i.fault)

HistoryCallback == CallbackTurn(1, D_rate \o IntStr(1) \o <<":">> \o IntStr(4), TRUE, TRUE, "none")

NextHistory == HistoryFreeText \/ HistoryCommand \/ HistoryCallback

SpecHistory == InitHistory /\ [][NextHistory]_vars

\* C20: no turn modifies or deletes a stored history row: the history after a turn
\* starts with the history before it
C20_HistoryAppendOnly ==
    [][/\ Len(db.riwayat) <= Len(db'.riwayat)
       /\ SubSeq(db'.riwayat, 1, Len(db.riwayat)) = db.riwayat]_vars

\* C20 witness: the first recipe was re-ingested after a history row referred to it,
\* after it was rated and after an ingredient was marked; the row is there
C20_Witness ==
    /\ last.kind = "text" /\ last.committed /\ last.out[1].tag = "menu_diperbarui"
    /\ \E i \in 1..Len(db.riwayat) : db.riwayat[i].id_menu = last.out[1].a
    /\ db.rating # {} /\ db.pantang # {}

(***************************************************************************)
(* SpecNames: ingestions of records whose names differ in case, or hold a   *)
(* character a LIKE pattern does not take literally                         *)
(***************************************************************************)
N_sapi_rica_upper == <<"S","A","P","I"," ","R","I","C","A">>
N_jus == <<"J","u","s"," ","1","0","0","%">>
N_jus_upper == <<"J","U","S"," ","1","0","0","%">>
N_jus_asli == <<"J","u","s"," ","1","0","0","%"," ","A","s","l","i">>

RecipeNames == {N_sapi_rica, N_sapi_rica_upper, N_jus, N_jus_upper, N_jus_asli}

\* a record of that name, with one ingredient and one step
NamedRecipe(nama) ==
    [nama_masakan |-> nama, tingkat_kesulitan |-> S_easy,
     bahan |-> <<Entry(T_sapi, T_gram, 1)>>, langkah |-> <<T_rebus>>]

NamesIngest ==
    \E u \in Users : \E nama \in RecipeNames :
        TextTurn(u, Join(<<C_addmenu, T_sapi>>), Answered(NamedRecipe(nama)), "none")

SpecNames == InitIngest /\ [][NamesIngest]_vars

\* no two recipe rows have names that are equal without case
NoTwoRecipesOfOneName ==
    \A m1 \in db.menu : \A m2 \in db.menu \ {m1} : Lower(m1.nama_masakan) # Lower(m2.nama_masakan)

\* C21: no two recipe rows have names that are equal without case, and the ingestion
\* of a name that is equal without case to the name of a recipe updates that recipe:
\* the turn commits, reports the update of its id and adds no recipe row
C21_RecipeNamesUniqueWithoutCase ==
    /\ NoTwoRecipesOfOneName
    /\ \A u \in Users : \A nama \in RecipeNames : \A m \in db.menu :
          Lower(m.nama_masakan) = Lower(nama) =>
              \E r \in {Ingest(db, u, NamedRecipe(nama), "none")} :
                  /\ r.committed
                  /\ r.out[1] = Msg("menu_diperbarui", m.id_menu, 0)
                  /\ {x.id_menu : x \in r.db.menu} = {x.id_menu : x \in db.menu}

(***************************************************************************)
(* SpecNoAI: /addmenu, /addmenulink and other texts over a one-recipe       *)
(* catalog, the AI not configured                                           *)
(***************************************************************************)
\* the ingestion commands, without an argument, with a description, with a URL
NoAITexts ==
    {C_addmenu, C_addmenulink, C_buatmenu, C_addmenufromlink, Join(<<C_addmenu, T_sapi>>),
     Join(<<C_buatmenu, T_sapi>>), Join(<<C_addmenulink, T_url>>), Join(<<C_addmenulink, T_sapi>>),
     Join(<<C_addmenufromlink, T_url>>)}

\* what the AI would hand back if it were asked
NoAIAnswers == {NoAI, Answered(R_rica_again), Answered(R_semur)}

NoAIIngest ==
    \E u \in Users : \E text \in {Join(<<C_addmenu, T_sapi>>), Join(<<C_addmenulink, T_url>>)} :
        \E ai \in NoAIAnswers : TextTurn(u, text, ai, "none")

\* a free text that names the recipe, a greeting, and a rating by the first user
NoAIOther ==
    \/ \E u \in Users : \E text \in {T_sapi_rica, T_halo} : TextTurn(u, text, NoAI, "none")
    \/ TextTurn(1, Join(<<C_rating, IntStr(1), IntStr(5)>>), NoAI, "none")

NextNoAI == NoAIIngest \/ NoAIOther

SpecNoAI == InitDispatch /\ [][NextNoAI]_vars

\* C22: with the AI not configured, every /addmenu and /addmenulink text is answered
\* with one feature-not-enabled message, the turn is the same whatever the AI would hand
\* back (it is not asked), and no recipe, ingredient, link or step row changes
C22_NoKeyNoIngestion ==
    ~gemini =>
        \A u \in Users : \A text \in NoAITexts :
            \E r \in {telegram_webhook(db, gemini, u, text, NoAI, "none")} :
                /\ Len(r.out) = 1
                /\ r.out[1].tag \in {"ai_belum_aktif_addmenu", "ai_belum_aktif_addmenulink"}
                /\ r.committed
                /\ Catalog(r.db) = Catalog(db)
                /\ \A ai \in NoAIAnswers : telegram_webhook(db, gemini, u, text, ai, "none") = r

\* C22 witness: /addmenulink <URL> was answered with the feature-not-enabled message
\* while the AI would have handed back a record; the catalog holds its one recipe
C22_Witness ==
    /\ ~gemini
    /\ last.kind = "text" /\ last.text = Join(<<C_addmenulink, T_url>>) /\ last.committed
    /\ Len(last.out) = 1 /\ last.out[1].tag \in {"ai_belum_aktif_addmenu", "ai_belum_aktif_addmenulink"}
    /\ Catalog(db) = Catalog(OneMenuDb)
    /\ db.riwayat # <<>>

(***************************************************************************)
(* SpecRank: find_relevant_menus applied once to a catalog, a query and a   *)
(* limit, the storage returning the catalog in some order                   *)
(***************************************************************************)
MaxCatalog == 3

N_sapi_rica_dash == <<"S","a","p","i","-","R","i","c","a">>
N_sapi_rica_pedas == <<"S","a","p","i"," ","R","i","c","a"," ","P","e","d","a","s">>
N_rica_sapi == <<"R","i","c","a"," ","S","a","p","i">>
N_menu == <<"M","e","n","u">>
T_rica_sapi == <<"r","i","c","a"," ","s","a","p","i">>
T_sapi_rica_pedas == <<"r","e","s","e","p"," ","s","a","p","i"," ","r","i","c","a"," ","p","e","d","a","s">>
T_resep == <<"r","e","s","e","p">>

\* recipe names, different without case; two of them normalize to "sapi rica", one to ""
RankNames == <<N_sapi_rica, N_sapi_rica_dash, N_sapi_rica_pedas, N_sapi_semur, N_rica_sapi, N_menu>>

RankRow(i) == [id_menu |-> i, nama_masakan |-> RankNames[i], tingkat_kesulitan |-> S_easy, source_url |-> NULL]

RankQueries == {N_sapi_rica_lower, T_sapi_rica, T_rica_sapi, T_sapi_rica_pedas, T_sapi, T_nasi_goreng, T_resep, T_blank}

\* the orders in which the storage can return the rows
Orders(rows) ==
    {f \in [1..Cardinality(rows) -> rows] : \A i \in DOMAIN f : \A j \in DOMAIN f : i # j => f[i] # f[j]}

InitRank ==
    /\ \E ids \in SUBSET (1..Len(RankNames)) :
          /\ Cardinality(ids) <= MaxCatalog
          /\ db = [EmptyDb EXCEPT !.menu = {RankRow(i) : i \in ids}]
    /\ gemini = FALSE
    /\ last = NoTurn
    /\ lastRated = {}
    /\ tx = <<>>

\* one call of find_relevant_menus
RankCall ==
    /\ last = NoTurn
    /\ \E query \in RankQueries : \E limit \in 1..MaxCatalog : \E order \in Orders(db.menu) :
          last' = [kind |-> "search", text |-> query, limit |-> limit, order |-> order \o <<>>,
                   found |-> rank_menus(order \o <<>>, query, limit)]
    /\ UNCHANGED <<db, gemini, lastRated, tx>>

SpecRank == InitRank /\ [][RankCall]_vars

\* the position of m in the list, 0 if it is not in it
PosIn(list, m) == IF \E i \in 1..Len(list) : list[i] = m THEN CHOOSE i \in 1..Len(list) : list[i] = m ELSE 0

\* the normalized name equals the normalized query
ExactFor(m, query) == _normalize_name(m.nama_masakan) = _normalize_name(Strip(query))

\* C23: in the list find_relevant_menus returns, no recipe whose normalized name differs
\* from the normalized query is there without, or ahead of, a recipe whose normalized
\* name equals it
C23_ExactMatchFirst ==
    last.kind = "search" =>
        \A e \in db.menu : \A d \in db.menu :
            (ExactFor(e, last.text) /\ ~ExactFor(d, last.text) /\ PosIn(last.found, d) > 0) =>
                /\ PosIn(last.found, e) > 0
                /\ PosIn(last.found, e) < PosIn(last.found, d)

\* C23 witness: the storage returned "Sapi Rica Pedas" (two shared tokens and the
\* substring bonus) ahead of "Sapi-Rica"; the query "sapi rica" found both, "Sapi-Rica" first
C23_Witness ==
    /\ last.kind = "search" /\ last.text = N_sapi_rica_lower
    /\ Len(last.order) = 2 /\ last.order[1].nama_masakan = N_sapi_rica_pedas
    /\ Len(last.found) = 2
    /\ last.found[1].nama_masakan = N_sapi_rica_dash /\ last.found[2].nama_masakan = N_sapi_rica_pedas

\* the score as the matcher's contract has it
ContractScore(nama, query) ==
    Let(_normalize_name(nama), LAMBDA name_norm :
    Let(_normalize_name(Strip(query)), LAMBDA q_norm :
        (IF name_norm = q_norm THEN 1000 ELSE 0)
        + 20 * Cardinality({w \in TokenSet(name_norm) : w \in TokenSet(q_norm)})
        + (IF Contains(name_norm, q_norm) \/ Contains(q_norm, name_norm) THEN 50 ELSE 0)))

\* C24: find_relevant_menus returns at most limit recipes of the catalog, each once and
\* each with a score above 0, in descending score and, among equal scores, in the order
\* of the lowercased names; when the query and a recipe's name normalize to texts and
\* the recipe's score is above 0, it is left out only behind limit recipes ranked before
\* it; and the list is the one returned when the storage returns the catalog in primary
\* key order
C24_TopKDeterministic ==
    last.kind = "search" =>
        \E found \in {last.found} :
        \E sc \in {[m \in db.menu |-> ContractScore(m.nama_masakan, last.text)]} :
            /\ Len(found) <= last.limit
            /\ \A i \in 1..Len(found) : found[i] \in db.menu /\ sc[found[i]] > 0
            /\ \A i \in 1..Len(found) : \A j \in 1..Len(found) :
                  i < j =>
                      \/ sc[found[i]] > sc[found[j]]
                      \/ /\ sc[found[i]] = sc[found[j]]
                         /\ StrLess(Lower(found[i].nama_masakan), Lower(found[j].nama_masakan))
            /\ \A m \in db.menu :
                  (/\ sc[m] > 0 /\ PosIn(found, m) = 0
                   /\ _normalize_name(m.nama_masakan) # <<>> /\ _normalize_name(Strip(last.text)) # <<>>) =>
                      /\ Len(found) = last.limit
                      /\ \A i \in 1..Len(found) :
                            \/ sc[found[i]] > sc[m]
                            \/ /\ sc[found[i]] = sc[m]
                               /\ StrLess(Lower(found[i].nama_masakan), Lower(m.nama_masakan))
            /\ found = find_relevant_menus(NewSession(db), last.text, last.limit)

\* C24 witness: three recipes score 70 for "sapi", the storage returned them in the
\* reverse of their name order, and the limit of 2 cut the third off
C24_Witness ==
    /\ last.kind = "search" /\ last.text = T_sapi /\ last.limit = 2
    /\ Len(last.order) = 3
    /\ \A i \in 1..3 : ContractScore(last.order[i].nama_masakan, T_sapi) = 70
    /\ StrLess(Lower(last.order[3].nama_masakan), Lower(last.order[2].nama_masakan))
    /\ StrLess(Lower(last.order[2].nama_masakan), Lower(last.order[1].nama_masakan))
    /\ last.found = <<last.order[3], last.order[2]>>

(***************************************************************************)
(* SpecSteps: ingestions of records whose step lists hold blank entries, at *)
(* the front and in the middle, and padded texts                            *)
(***************************************************************************)
T_rebus_padded == <<" ","r","e","b","u","s"," ">>

StepLists == {<<T_potong, T_blank, T_tumis>>, <<T_blank, T_rebus_padded>>, <<T_tumis, <<>>, T_potong, T_rebus>>}

StepRecipes ==
    {[nama_masakan |-> nama, tingkat_kesulitan |-> S_easy, bahan |-> <<Entry(T_sapi, T_gram, 1)>>,
      langkah |-> langkah] : nama \in {N_sapi_rica, N_sapi_semur}, langkah \in StepLists}

StepsIngest ==
    \E u \in Users : \E recipe \in StepRecipes :
        TextTurn(u, Join(<<C_addmenu, T_sapi>>), Answered(recipe), "none")

SpecSteps == InitIngest /\ [][StepsIngest]_vars

\* the step texts of a record that are not blank, in the record's order, as str.strip()
\* leaves them
NonBlankSteps(recipe) ==
    SelectSeq([i \in 1..Len(recipe.langkah) |-> Strip(recipe.langkah[i])] \o <<>>, LAMBDA t : t # <<>>)

\* C25: after a successful ingestion the steps of the recipe, read in ascending
\* langkah_no, are the non-blank step texts of the record (stripped) in the record's order
C25_StepsInRecordOrder ==
    \A u \in Users : \A recipe \in StepRecipes :
        \E r \in {Ingest(db, u, recipe, "none")} :
            (r.committed /\ r.out[1].tag \in {"menu_baru", "menu_diperbarui"}) =>
                \E read \in {langkah_sorted(r.db, r.out[1].a)} :
                    [i \in 1..Len(read) |-> read[i].deskripsi] \o <<>> = NonBlankSteps(recipe)

\* C25 witness: the recipe was ingested again with a list of four entries, one blank,
\* over its steps of an earlier ingestion; it reads tumis, potong, rebus
C25_Witness ==
    /\ last.kind = "text" /\ last.committed /\ last.out[1].tag = "menu_diperbarui"
    /\ \E read \in {langkah_sorted(db, last.out[1].a)} :
          /\ Len(read) = 3
          /\ read[1].deskripsi = T_tumis /\ read[2].deskripsi = T_potong /\ read[3].deskripsi = T_rebus
    /\ Cardinality(db.menu) = 2

\* C26: the steps of every recipe that has a stored step are numbered from 1: the
\* first step read has langkah_no 1
C26_StepNumbersFromOne ==
    \A m \in db.menu :
        \E read \in {langkah_sorted(db, m.id_menu)} :
            read # <<>> => read[1].langkah_no = 1

(***************************************************************************)
(* SpecRace: overlapping turns of one user that rate the one recipe with    *)
(* different scores and mark the one ingredient with different kinds        *)
(***************************************************************************)
RaceTexts ==
    {Join(<<C_rating, IntStr(1), IntStr(5)>>), Join(<<C_rating, IntStr(1), IntStr(4)>>),
     Join(<<C_pantang, S_tambah, T_udang>>), Join(<<C_pantang, S_tambah, T_udang, S_alergi>>)}

RaceBegin == \E text \in RaceTexts : ConcBeginTurn(1, text)

NextRace == RaceBegin \/ ConcCommit

SpecRace == InitConc /\ [][NextRace]_vars

\* no two rating rows of one (user, recipe), no two restriction rows of one (user, ingredient)
KeysUnique(d) ==
    /\ \A r1 \in d.rating : \A r2 \in d.rating : RatingKey(r1) = RatingKey(r2) => r1 = r2
    /\ \A p1 \in d.pantang : \A p2 \in d.pantang : PantangKey(p1) = PantangKey(p2) => p1 = p2

\* the transaction holds an INSERT of a row whose key is the key of a stored row
RacingInsert(now, w) ==
    \E i \in 1..Len(w.new) :
        \/ w.new[i].t = "rating" /\ \E r \in now.rating : RatingKey(r) = RatingKey(w.new[i].row)
        \/ w.new[i].t = "pantang" /\ \E r \in now.pantang : PantangKey(r) = PantangKey(w.new[i].row)

\* C27: after every step of overlapping turns the store holds no two rating rows of one
\* (user, recipe) and no two restriction rows of one (user, ingredient), and a turn that
\* reaches its commit with an INSERT of a key that an overlapping turn has committed
\* does not commit: the store stays as it is
C27_RacingInsertsOneCommits ==
    [][/\ KeysUnique(db')
       /\ \A i \in 1..Len(tx) :
             (ConcExit(i) /\ RacingInsert(db, tx[i].writes)) => (db' = db /\ ~last'.committed)]_vars

\* C27 witness: the user's rating of 4 found no row when its turn began, met the row of
\* an overlapping rating of 5 at its commit and was rolled back; a restriction is stored too
C27_Witness ==
    /\ last.kind = "text" /\ ~last.committed
    /\ last.out[1] = Msg("rating_disimpan", 1, 4)
    /\ db.rating = {[telegram_user_id |-> 1, id_menu |-> 1, rating_menu |-> 5, review |-> NULL]}
    /\ db.pantang # {}

(***************************************************************************)
(* SpecRefs: the turns of SpecHistory, and ratings of a recipe that is not  *)
(* in the catalog                                                           *)
(***************************************************************************)
RefsProbe ==
    \/ TextTurn(1, Join(<<C_rating, IntStr(7), IntStr(5)>>), NoAI, "none")
    \/ \E u \in Users : CallbackTurn(u, D_rate \o IntStr(7) \o <<":">> \o IntStr(4), TRUE, TRUE, "none")

NextRefs == NextHistory \/ RefsProbe

SpecRefs == InitHistory /\ [][NextRefs]_vars

\* every row refers to rows that are in the store
RefIntegrity(d) ==
    \E menus \in {{m.id_menu : m \in d.menu}} : \E bahans \in {{b.id_bahan : b \in d.bahan}} :
        /\ \A r \in d.rating : r.telegram_user_id \in d.users /\ r.id_menu \in menus
        /\ \A p \in d.pantang : p.telegram_user_id \in d.users /\ p.id_bahan \in bahans
        /\ \A i \in 1..Len(d.riwayat) :
              d.riwayat[i].telegram_user_id \in d.users /\ d.riwayat[i].id_menu \in menus
        /\ \A l \in d.menu_bahan : l.id_menu \in menus /\ l.id_bahan \in bahans
        /\ \A l \in d.menu_langkah : l.id_menu \in menus

\* C28: in the store after every turn each rating, restriction and history row refers
\* to a User row and to a recipe or ingredient row, each link to a recipe and an
\* ingredient row, each step to a recipe row; and the turn deleted no User, recipe or
\* ingredient row
C28_ReferentialIntegrity ==
    [][/\ RefIntegrity(db')
       /\ db.users \subseteq db'.users
       /\ {m.id_menu : m \in db.menu} \subseteq {m.id_menu : m \in db'.menu}
       /\ db.bahan \subseteq db'.bahan]_vars

\* C28 witness: a user without a User row pressed the rating button of a recipe that
\* is not in the catalog; rating, restriction, history, link and step rows are stored
C28_Witness ==
    /\ last.kind = "callback" /\ last.user \notin db.users
    /\ last.out = <<Msg("cb_menu_tidak_ditemukan", 7, 0)>>
    /\ db.rating # {} /\ db.pantang # {} /\ db.riwayat # <<>>
    /\ db.menu_bahan # {} /\ db.menu_langkah # {}
    /\ RefIntegrity(db)

(***************************************************************************)
(* SpecFrame: free texts of two users over a catalog of two recipes; the    *)
(* first user rates a recipe and marks an ingredient, the second presses    *)
(* the rating button                                                        *)
(***************************************************************************)
FrameTurn ==
    \/ \E u \in {1, 2} : TextTurn(u, T_sapi_rica, NoAI, "none")
    \/ \E text \in {Join(<<C_rating, IntStr(1), IntStr(5)>>), Join(<<C_pantang, S_tambah, T_udang>>)} :
          TextTurn(1, text, NoAI, "none")
    \/ CallbackTurn(2, D_rate \o IntStr(1) \o <<":">> \o IntStr(4), TRUE, TRUE, "none")

SpecFrame == InitMatch /\ [][FrameTurn]_vars

\* texts and payloads that write rating, restriction and history rows, or read them
FrameTexts ==
    {T_sapi_rica, T_nasi_goreng, C_history,
     Join(<<C_rating, IntStr(1), IntStr(5)>>), Join(<<C_rating, IntStr(1), IntStr(2), R_enak>>),
     Join(<<C_pantang, S_tambah, T_udang>>), Join(<<C_pantang, S_tambah, T_udang, S_alergi>>),
     Join(<<C_pantang, S_tambah, T_tempe>>), Join(<<C_pantang, S_hapus, T_udang>>)}
FrameDatas == {D_history, D_pantang_view, D_rate \o IntStr(1) \o <<":">> \o IntStr(4), D_rate \o IntStr(2) \o <<":">> \o IntStr(1)}

\* the rating, restriction and history rows of the users other than u
RowsOfOthers(d, u) ==
    [rating |-> {r \in d.rating : r.telegram_user_id # u},
     pantang |-> {p \in d.pantang : p.telegram_user_id # u},
     riwayat |-> SelectSeq(d.riwayat, LAMBDA r : r.telegram_user_id # u)]

\* C29: a /pantang, /rating or free-text turn, or a callback, of user u leaves the
\* rating, restriction and history rows of every other user as they were
C29_OnlyOwnRows ==
    \A u \in Users :
        \E others \in {RowsOfOthers(db, u)} :
            /\ \A text \in FrameTexts :
                  RowsOfOthers(telegram_webhook(db, gemini, u, text, NoAI, "none").db, u) = others
            /\ \A data \in FrameDatas :
                  RowsOfOthers(handle_callback_query(db, u, data, TRUE, TRUE, "none").db, u) = others

\* C29 witness: the second user's rating of 4 was stored next to the first user's
\* rating of 5 of the same recipe; the first user has a restriction and a history row
C29_Witness ==
    /\ last.kind = "callback" /\ last.user = 2 /\ last.out = <<Msg("cb_rating_disimpan", 1, 4)>>
    /\ \E r \in db.rating : r.telegram_user_id = 1 /\ r.id_menu = 1 /\ r.rating_menu = 5
    /\ \E r \in db.rating : r.telegram_user_id = 2 /\ r.id_menu = 1 /\ r.rating_menu = 4
    /\ \E p \in db.pantang : p.telegram_user_id = 1
    /\ \E i \in 1..Len(db.riwayat) : db.riwayat[i].telegram_user_id = 1

(***************************************************************************)
(* SpecBahan: restriction Adds and recipe ingestions that name the same     *)
(* ingredients in different case, one of them with a backslash in its name  *)
(***************************************************************************)
T_tempe_upper == <<"T","E","M","P","E">>
T_gula_bs == <<"g","u","l","a","\\","b">>
T_gula_bs_upper == <<"G","U","L","A","\\","B">>

R_jus ==
    [nama_masakan |-> N_jus, tingkat_kesulitan |-> S_easy,
     bahan |-> <<Entry(T_gula_bs, T_gram, 10)>>,
     langkah |-> <<T_rebus>>]
R_semur_tempe ==
    [nama_masakan |-> N_sapi_semur, tingkat_kesulitan |-> S_easy,
     bahan |-> <<Entry(T_tempe_upper, T_gram, 2)>>,
     langkah |-> <<T_tumis>>]
R_semur_cabai ==
    [nama_masakan |-> N_sapi_semur, tingkat_kesulitan |-> S_easy,
     bahan |-> <<Entry(T_cabai, T_gram, 2), Entry(T_gula_bs_upper, T_gram, 1)>>,
     langkah |-> <<T_tumis>>]

BahanAdds ==
    {Join(<<C_pantang, S_tambah, name>>) : name \in {T_tempe, T_tempe_upper, T_gula_bs, T_cabai}}
    \cup {Join(<<C_pantang, S_tambah, T_tempe_upper, S_alergi>>)}
BahanRecipes == {R_jus, R_semur_tempe, R_semur_cabai}

BahanAdd == \E text \in BahanAdds : TextTurn(1, text, NoAI, "none")
BahanIngest == \E recipe \in BahanRecipes : TextTurn(1, Join(<<C_addmenu, T_sapi>>), Answered(recipe), "none")

NextBahan == BahanAdd \/ BahanIngest
SpecBahan == InitIngest /\ [][NextBahan]_vars

T_start_upper == <<"/","S","T","A","R","T">>
T_slash_foo == <<"/","f","o","o">>

ReadOnlySetup ==
    \E i \in {Input(T_sapi_rica, NoAI, "none"),
              Input(Join(<<C_rating, IntStr(1), IntStr(5)>>), NoAI, "none"),
              Input(Join(<<C_pantang, S_tambah, T_udang>>), NoAI, "none"),
              Input(Join(<<C_addmenu, T_sapi>>), Answered(R_rica_again), "none")} :
        TextTurn(1, i.text, i.ai, i.fault)

ReadOnlyCommand ==
    \E u \in Users : \E text \in {C_start, Join(<<C_pantang, T_foo>>), T_slash_sapi_rica} :
        TextTurn(u, text, NoAI, "none")

NextReadOnly == ReadOnlySetup \/ ReadOnlyCommand
SpecReadOnly == InitHistory /\ [][NextReadOnly]_vars

\* /start, /help, /id, /history, /menu, /pantang list, a /pantang with an unknown
\* subcommand, and texts with a "/" that match no command
ReadOnlyTexts ==
    {C_start, T_start_upper, C_help, T_help_rekomendasi, C_id, C_history, C_menu,
     C_pantang, Join(<<C_pantang, S_list>>), Join(<<C_pantang, T_foo>>),
     Join(<<C_pantang, T_foo, T_udang>>), T_slash_sapi_rica, T_slash_foo}

\* the recipe, ingredient, link, step, rating, restriction and history rows
ContentRows(d) ==
    [catalog |-> Catalog(d), rating |-> d.rating, pantang |-> d.pantang, riwayat |-> d.riwayat]

\* C31: /start, /help, /id, /history, /menu, /pantang list, a /pantang with an unknown
\* subcommand and a "/" text that matches no command leave every recipe, ingredient,
\* link, step, rating, restriction and history row as it was; the only row they may
\* add is the sender's User row
C31_ReadOnlyCommands ==
    \E rows \in {ContentRows(db)} :
        \A u \in Users : \A text \in ReadOnlyTexts : \A ai \in {NoAI, Answered(R_semur)} :
            \E r \in {telegram_webhook(db, gemini, u, text, ai, "none")} :
                /\ ContentRows(r.db) = rows
                /\ db.users \subseteq r.db.users
                /\ r.db.users \subseteq db.users \cup {u}

\* C31 witness: with every table filled, a user without a User row sent a "/" text
\* that names a stored recipe; it got the unknown-command reply and a User row
C31_Witness ==
    /\ last.kind = "text" /\ last.text = T_slash_sapi_rica /\ last.committed
    /\ last.out = <<Msg("perintah_tidak_dikenal", 0, 0)>>
    /\ last.user # 1 /\ last.user \in db.users
    /\ db.rating # {} /\ db.pantang # {} /\ db.riwayat # <<>>
    /\ db.bahan # {} /\ db.menu_bahan # {} /\ db.menu_langkah # {}

====
